---- MODULE Spec2Model ----
(***************************************************************************)
(* Model of pathlib.h: the wildcard matcher (pathlib__fnmatch, a stripped  *)
(* copy of musl's fnmatch) and the directory walker behind pathlib_glob    *)
(* and pathlib_rglob.                                                      *)
(*                                                                         *)
(* A C string is a sequence of byte values 1..255; the terminating NUL is  *)
(* implicit at index Len+1.  A pointer into a string is a 1-based index.   *)
(***************************************************************************)
EXTENDS Integers, Sequences, FiniteSets, TLC

VARIABLES
    charSigned,     \* whether plain char is signed on this build
    libcWctype,     \* what the C library's iswctype makes of a table position
    pc,             \* position of the modelled call
    pat,            \* pattern argument of pathlib__fnmatch
    str,            \* name argument of pathlib__fnmatch
    ret,            \* value returned by pathlib__fnmatch (0 match, 1 no match)
    fs,             \* the file system: kind of every node of the tree
    pathlib_error,  \* the process-wide error indicator
    pattern,        \* pattern argument of pathlib_glob / pathlib_rglob
    recursive,      \* the recursive argument of pathlib__recursive_glob
    stack,          \* active frames of pathlib__recursive_glob, innermost last
    callRet,        \* value returned by the frame that returned last (-1: none)
    results,        \* the Paths accumulator of the walk
    open,           \* directory handles opened and not yet closed
    opened,         \* per node, the opendir calls that succeeded on it so far
    argStr,         \* string argument of pathlib_from_str
    thePath,        \* the Path object operated on
    outStr,         \* string returned by pathlib_to_str
    callArg         \* argument of the last pathlib_add_part / pathlib_paths_pop

mvars == <<charSigned, libcWctype, pc, pat, str, ret>>
wvars == <<fs, pathlib_error, pattern, recursive, stack, callRet, results, open,
           opened>>
pvars == <<argStr, thePath, outStr, callArg>>
vars  == <<mvars, wvars, pvars>>

(***************************************************************************)
(* Character codes used by the source.                                     *)
(***************************************************************************)
chBang   == 33      \* '!'
chStar   == 42      \* '*'
chDash   == 45      \* '-'
chDot    == 46      \* '.'
chSlash  == 47      \* '/'
chColon  == 58      \* ':'
chEquals == 61      \* '='
chQuest  == 63      \* '?'
chLBrack == 91      \* '['
chBSlash == 92      \* '\\'
chRBrack == 93      \* ']'
chCaret  == 94      \* '^'

END         == 0
UNMATCHABLE == -2
BRACKET     == -3
QUESTION    == -4
STAR        == -5
FNM_NOMATCH == 1

\* pathlib__fnmatch passes (size_t)-1 for both lengths: "unknown", never reached
UnknownLen == 1000000

\* MB_CUR_MAX of the "C" locale, the locale of a program that never calls
\* setlocale (the library never does)
MB_CUR_MAX == 1

\* pat[i], with the terminating NUL at Len+1
At(s, i) == IF i >= 1 /\ i <= Len(s) THEN s[i] ELSE 0

\* value of a char object read as an int: sign-extended where char is signed
CharToInt(b) == IF charSigned /\ b >= 128 THEN b - 256 ELSE b

\* pathlib__str_next: the next character of the name, 0 at its end
pathlib__str_next(s, i, n) ==
    IF n = 0 THEN [k |-> 0, step |-> 0]
    ELSE [k |-> CharToInt(At(s, i)), step |-> 1]

(***************************************************************************)
(* pathlib__pat_next: the next pattern token starting at p[i], looking at  *)
(* no more than m characters.  k below is the offset from i as in the      *)
(* source.                                                                 *)
(***************************************************************************)
RECURSIVE ClassScan(_, _, _, _, _)
ClassScan(p, i, m, z, k) ==
    IF k < m /\ At(p, i+k) # 0 /\ (At(p, i+k-1) # z \/ At(p, i+k) # chRBrack)
    THEN ClassScan(p, i, m, z, k+1)
    ELSE k

RECURSIVE BracketScan(_, _, _, _)
BracketScan(p, i, m, k) ==
    IF ~(k < m /\ At(p, i+k) # 0 /\ At(p, i+k) # chRBrack) THEN k
    ELSE IF k+1 < m /\ At(p, i+k+1) # 0 /\ At(p, i+k) = chLBrack
            /\ At(p, i+k+1) \in {chColon, chDot, chEquals}
    THEN LET z  == At(p, i+k+1)
             k2 == k + 2
             k3 == IF k2 < m /\ At(p, i+k2) # 0 THEN k2 + 1 ELSE k2
             k4 == ClassScan(p, i, m, z, k3)
         IN  IF k4 = m \/ At(p, i+k4) = 0 THEN k4
             ELSE BracketScan(p, i, m, k4 + 1)
    ELSE BracketScan(p, i, m, k+1)

\* pathlib__pat_next rejecting a '[' that no ']' closes
pathlib__pat_next_OpenBracket(p, i, m) ==
    IF m = 0 \/ At(p, i) = 0 THEN [c |-> END, step |-> 0]
    ELSE IF At(p, i) = chBSlash /\ At(p, i+1) # 0
    THEN [c |-> CharToInt(At(p, i+1)), step |-> 2]
    ELSE IF At(p, i) = chLBrack
    THEN LET k1 == IF 1 < m /\ At(p, i+1) \in {chCaret, chBang} THEN 2 ELSE 1
             k2 == IF k1 < m /\ At(p, i+k1) = chRBrack THEN k1 + 1 ELSE k1
             k  == BracketScan(p, i, m, k2)
         IN  IF k = m \/ At(p, i+k) = 0
             THEN [c |-> UNMATCHABLE, step |-> 1]
             ELSE [c |-> BRACKET, step |-> k + 1]
    ELSE IF At(p, i) = chStar THEN [c |-> STAR, step |-> 1]
    ELSE IF At(p, i) = chQuest THEN [c |-> QUESTION, step |-> 1]
    ELSE [c |-> CharToInt(At(p, i)), step |-> 1]

pathlib__pat_next(p, i, m) ==
    IF m = 0 \/ At(p, i) = 0 THEN [c |-> END, step |-> 0]
    ELSE IF At(p, i) = chBSlash /\ At(p, i+1) # 0
    THEN [c |-> CharToInt(At(p, i+1)), step |-> 2]
    ELSE IF At(p, i) = chLBrack
    THEN LET k1 == IF 1 < m /\ At(p, i+1) \in {chCaret, chBang} THEN 2 ELSE 1
             k2 == IF k1 < m /\ At(p, i+k1) = chRBrack THEN k1 + 1 ELSE k1
             k  == BracketScan(p, i, m, k2)
         IN  IF k = m \/ At(p, i+k) = 0
             THEN [c |-> chLBrack, step |-> 1]
             ELSE [c |-> BRACKET, step |-> k + 1]
    ELSE IF At(p, i) = chStar THEN [c |-> STAR, step |-> 1]
    ELSE IF At(p, i) = chQuest THEN [c |-> QUESTION, step |-> 1]
    ELSE [c |-> CharToInt(At(p, i)), step |-> 1]

(***************************************************************************)
(* pathlib__wctype and iswctype: the class names in table order, and the   *)
(* class of that position over ASCII.                                      *)
(*                                                                         *)
(* pathlib__wctype returns the position of the name in its own table, and  *)
(* match_bracket hands that number to the C library's iswctype.  The C     *)
(* standard defines iswctype only for a descriptor obtained from wctype(). *)
(* A library that numbers its classes as the table does (musl) answers for *)
(* the class at that position: libcWctype = "position".  Any other library *)
(* reads the number as a descriptor of its own (a pointer, a bit mask) and *)
(* may answer either way: libcWctype = "accepts" or "rejects".             *)
(***************************************************************************)
LibcWctypes == {"position", "accepts", "rejects"}

ClassNames ==
    << <<97,108,110,117,109>>,      \* alnum
       <<97,108,112,104,97>>,       \* alpha
       <<98,108,97,110,107>>,       \* blank
       <<99,110,116,114,108>>,      \* cntrl
       <<100,105,103,105,116>>,     \* digit
       <<103,114,97,112,104>>,      \* graph
       <<108,111,119,101,114>>,     \* lower
       <<112,114,105,110,116>>,     \* print
       <<112,117,110,99,116>>,      \* punct
       <<115,112,97,99,101>>,       \* space
       <<117,112,112,101,114>>,     \* upper
       <<120,100,105,103,105,116>> >>  \* xdigit

pathlib__wctype(s) ==
    IF \E i \in 1..Len(ClassNames) : ClassNames[i] = s
    THEN CHOOSE i \in 1..Len(ClassNames) : ClassNames[i] = s
    ELSE 0

IsUpper(k)  == k >= 65 /\ k <= 90
IsLower(k)  == k >= 97 /\ k <= 122
IsDigit(k)  == k >= 48 /\ k <= 57
IsAlpha(k)  == IsUpper(k) \/ IsLower(k)
IsGraph(k)  == k >= 33 /\ k <= 126
IsSpace(k)  == k = 32 \/ (k >= 9 /\ k <= 13)

\* iswctype of a library that numbers its classes as the table does
ClassAtPosition(k, desc) ==
    CASE desc = 1  -> IsAlpha(k) \/ IsDigit(k)
      [] desc = 2  -> IsAlpha(k)
      [] desc = 3  -> k = 32 \/ k = 9
      [] desc = 4  -> (k >= 0 /\ k < 32) \/ k = 127
      [] desc = 5  -> IsDigit(k)
      [] desc = 6  -> IsGraph(k)
      [] desc = 7  -> IsLower(k)
      [] desc = 8  -> k >= 32 /\ k <= 126
      [] desc = 9  -> IsGraph(k) /\ ~IsAlpha(k) /\ ~IsDigit(k)
      [] desc = 10 -> IsSpace(k)
      [] desc = 11 -> IsUpper(k)
      [] desc = 12 -> IsDigit(k) \/ (k >= 65 /\ k <= 70) \/ (k >= 97 /\ k <= 102)
      [] OTHER     -> FALSE

iswctype(k, desc) ==
    IF desc = 0 THEN FALSE
    ELSE IF libcWctype = "position" THEN ClassAtPosition(k, desc)
    ELSE libcWctype = "accepts"

\* mbtowc in the "C" locale: one byte below 128 is itself, NUL has length 0,
\* any other byte is an illegal sequence
mbtowc(p, i) ==
    IF At(p, i) = 0 THEN [l |-> 0, wc |-> 0]
    ELSE IF At(p, i) < 128 THEN [l |-> 1, wc |-> At(p, i)]
    ELSE [l |-> -1, wc |-> 0]

SubStr(s, a, b) == [j \in 1..(b - a + 1) |-> s[a + j - 1]]

(***************************************************************************)
(* pathlib__match_bracket: does the bracket expression starting at p[i]    *)
(* accept the character k (1) or not (0).                                  *)
(***************************************************************************)
RECURSIVE ClassEnd(_, _, _)
ClassEnd(p, q, z) ==
    IF At(p, q-1) # z \/ At(p, q) # chRBrack THEN ClassEnd(p, q+1, z) ELSE q

RECURSIVE BracketLoop(_, _, _, _, _)
BracketLoop(p, q, wc, k, inv) ==
    IF At(p, q) = chRBrack THEN inv
    ELSE IF At(p, q) = chDash /\ At(p, q+1) # chRBrack
    THEN LET r == mbtowc(p, q+1)
         IN  IF r.l < 0 THEN 0
             ELSE IF wc <= r.wc /\ k - wc >= 0 /\ k - wc <= r.wc - wc
             THEN 1 - inv
             ELSE BracketLoop(p, q + r.l, wc, k, inv)
    ELSE IF At(p, q) = chLBrack /\ At(p, q+1) \in {chColon, chDot, chEquals}
    THEN LET p0 == q + 2
             z  == At(p, q+1)
             e  == ClassEnd(p, q + 3, z)
         IN  IF z = chColon /\ e - 1 - p0 < 16
                /\ iswctype(k, pathlib__wctype(SubStr(p, p0, e - 2)))
             THEN 1 - inv
             ELSE BracketLoop(p, e + 1, wc, k, inv)
    ELSE IF At(p, q) < 128
    THEN IF At(p, q) = k THEN 1 - inv
         ELSE BracketLoop(p, q + 1, At(p, q), k, inv)
    ELSE LET r == mbtowc(p, q)
         IN  IF r.l < 0 THEN 0
             ELSE IF r.wc = k THEN 1 - inv
             ELSE BracketLoop(p, q + r.l, r.wc, k, inv)

\* pathlib__match_bracket taking only '^' as the negation mark
pathlib__match_bracket_CaretOnly(p, i, k) ==
    LET neg == At(p, i+1) = chCaret
        inv == IF neg THEN 1 ELSE 0
        q   == IF neg THEN i + 2 ELSE i + 1
    IN  IF At(p, q) = chRBrack
        THEN IF k = chRBrack THEN 1 - inv
             ELSE BracketLoop(p, q + 1, CharToInt(At(p, q)), k, inv)
        ELSE IF At(p, q) = chDash
        THEN IF k = chDash THEN 1 - inv
             ELSE BracketLoop(p, q + 1, CharToInt(At(p, q)), k, inv)
        ELSE BracketLoop(p, q, CharToInt(At(p, q - 1)), k, inv)

pathlib__match_bracket(p, i, k) ==
    LET neg == At(p, i+1) \in {chCaret, chBang}
        inv == IF neg THEN 1 ELSE 0
        q   == IF neg THEN i + 2 ELSE i + 1
    IN  IF At(p, q) = chRBrack
        THEN IF k = chRBrack THEN 1 - inv
             ELSE BracketLoop(p, q + 1, CharToInt(At(p, q)), k, inv)
        ELSE IF At(p, q) = chDash
        THEN IF k = chDash THEN 1 - inv
             ELSE BracketLoop(p, q + 1, CharToInt(At(p, q)), k, inv)
        ELSE BracketLoop(p, q, CharToInt(At(p, q - 1)), k, inv)

\* one pattern token c (parsed at p[i]) against one name character k
TokenAccepts(p, i, c, k) ==
    IF c = BRACKET THEN pathlib__match_bracket(p, i, k) # 0
    ELSE c = QUESTION \/ k = c

(***************************************************************************)
(* pathlib__fnmatch_internal, in the order of the source: the leading run  *)
(* up to the first '*', the tail after the last '*', then the components   *)
(* between stars, each slid left to right over the rest of the name.       *)
(***************************************************************************)

\* the tail count taking every pattern byte for one unit
RECURSIVE FindTail_PerByte(_, _, _, _, _)
FindTail_PerByte(p, q, endpat, tailcnt, ptail) ==
    IF ~(q < endpat) THEN [bad |-> FALSE, tailcnt |-> tailcnt, ptail |-> ptail]
    ELSE LET r == pathlib__pat_next(p, q, endpat - q)
         IN  IF r.c = UNMATCHABLE
             THEN [bad |-> TRUE, tailcnt |-> tailcnt, ptail |-> ptail]
             ELSE IF r.c = STAR
             THEN FindTail_PerByte(p, q + 1, endpat, 0, q + 1)
             ELSE FindTail_PerByte(p, q + 1, endpat, tailcnt + 1, ptail)

\* the loop "Find the last * in pat and count chars needed after it":
\* [bad |-> an UNMATCHABLE token was met, tailcnt, ptail]
RECURSIVE FindTail(_, _, _, _, _)
FindTail(p, q, endpat, tailcnt, ptail) ==
    IF ~(q < endpat) THEN [bad |-> FALSE, tailcnt |-> tailcnt, ptail |-> ptail]
    ELSE LET r == pathlib__pat_next(p, q, endpat - q)
         IN  IF r.c = UNMATCHABLE
             THEN [bad |-> TRUE, tailcnt |-> tailcnt, ptail |-> ptail]
             ELSE IF r.c = STAR
             THEN FindTail(p, q + r.step, endpat, 0, q + 1)
             ELSE FindTail(p, q + r.step, endpat, tailcnt + 1, ptail)

\* the inner "while" that steps back over UTF-8 continuation bytes
RECURSIVE SkipContinuation(_, _, _)
SkipContinuation(s, q, start) ==
    LET q1 == q - 1
    IN  IF At(s, q1) >= 128 /\ At(s, q1) < 192 /\ q1 > start
        THEN SkipContinuation(s, q1, start)
        ELSE q1

\* the loop "Find the final tailcnt chars of str": [s, tailcnt] at its exit
RECURSIVE BackUp(_, _, _, _)
BackUp(s, q, start, tailcnt) ==
    IF q > start /\ tailcnt # 0
    THEN IF At(s, q - 1) < 128 \/ MB_CUR_MAX = 1
         THEN BackUp(s, q - 1, start, tailcnt - 1)
         ELSE BackUp(s, SkipContinuation(s, q, start), start, tailcnt - 1)
    ELSE [s |-> q, tailcnt |-> tailcnt]

\* the loop "Check that the pat and str tails match": TRUE when it breaks,
\* FALSE when it returns FNM_NOMATCH
RECURSIVE TailMatches(_, _, _, _, _, _)
TailMatches(p, q, endpat, s, t, endstr) ==
    LET r == pathlib__pat_next(p, q, endpat - q)
        x == pathlib__str_next(s, t, endstr - t)
    IN  IF x.k <= 0 THEN r.c = END
        ELSE IF ~TokenAccepts(p, q, r.c, x.k) THEN FALSE
        ELSE TailMatches(p, q + r.step, endpat, s, t + x.step, endstr)

\* the inner "for (;;)" of the component loop, from pattern position q and
\* name position t: "star" (component committed, with the new pat and str),
\* "fail" (return FNM_NOMATCH) or "retry" (component did not fit here)
RECURSIVE Component(_, _, _, _, _, _)
Component(p, q, endpat, s, t, endstr) ==
    LET r == pathlib__pat_next(p, q, endpat - q)
        x == pathlib__str_next(s, t, endstr - t)
    IN  IF r.c = STAR THEN [out |-> "star", pat |-> q + r.step, str |-> t]
        ELSE IF x.k = 0 THEN [out |-> "fail", pat |-> q, str |-> t]
        ELSE IF ~TokenAccepts(p, q, r.c, x.k)
        THEN [out |-> "retry", pat |-> q, str |-> t]
        ELSE Component(p, q + r.step, endpat, s, t + x.step, endstr)

\* "for (str++; pathlib__str_next(str, endstr-str, &sinc)<0; str++);"
RECURSIVE SkipInvalid(_, _, _)
SkipInvalid(s, t, endstr) ==
    IF pathlib__str_next(s, t, endstr - t).k < 0
    THEN SkipInvalid(s, t + 1, endstr)
    ELSE t

\* the component loop giving up where a component does not fit at once
RECURSIVE Components_NoSlide(_, _, _, _, _, _)
Components_NoSlide(p, q, endpat, s, t, endstr) ==
    IF ~(q < endpat) THEN 0
    ELSE LET r == Component(p, q, endpat, s, t, endstr)
         IN  IF r.out = "star"
             THEN Components_NoSlide(p, r.pat, endpat, s, r.str, endstr)
             ELSE FNM_NOMATCH

\* the loop "Match pattern components until there are none left"
RECURSIVE Components(_, _, _, _, _, _)
Components(p, q, endpat, s, t, endstr) ==
    IF ~(q < endpat) THEN 0
    ELSE LET r == Component(p, q, endpat, s, t, endstr)
         IN  IF r.out = "star" THEN Components(p, r.pat, endpat, s, r.str, endstr)
             ELSE IF r.out = "fail" THEN FNM_NOMATCH
             ELSE LET x == pathlib__str_next(s, t, endstr - t)
                  IN  IF x.k > 0
                      THEN Components(p, q, endpat, s, t + x.step, endstr)
                      ELSE Components(p, q, endpat, s,
                                      SkipInvalid(s, t + 1, endstr), endstr)

\* the part after the first '*' wanting more name than the tail takes
AfterStar_NeedsMore(p, q, s, t) ==
    LET endpat == Len(p) + 1
        ft     == FindTail(p, q, endpat, 0, q)
        endstr == Len(s) + 1
        n      == endstr - t
        bu     == BackUp(s, endstr, t, ft.tailcnt)
    IN  IF ft.bad THEN FNM_NOMATCH
        ELSE IF n <= ft.tailcnt THEN FNM_NOMATCH
        ELSE IF bu.tailcnt # 0 THEN FNM_NOMATCH
        ELSE IF ~TailMatches(p, ft.ptail, endpat, s, bu.s, endstr) THEN FNM_NOMATCH
        ELSE Components(p, q, ft.ptail, s, t, bu.s)

\* everything after the first loop has met a '*'; q and t are pat and str
AfterStar(p, q, s, t) ==
    LET endpat == Len(p) + 1
        ft     == FindTail(p, q, endpat, 0, q)
        endstr == Len(s) + 1
        n      == endstr - t
        bu     == BackUp(s, endstr, t, ft.tailcnt)
    IN  IF ft.bad THEN FNM_NOMATCH
        ELSE IF n < ft.tailcnt THEN FNM_NOMATCH
        ELSE IF bu.tailcnt # 0 THEN FNM_NOMATCH
        ELSE IF ~TailMatches(p, ft.ptail, endpat, s, bu.s, endstr) THEN FNM_NOMATCH
        ELSE Components(p, q, ft.ptail, s, t, bu.s)

\* the first loop accepting at the end of the name whatever pattern is left
RECURSIVE pathlib__fnmatch_internal_EndAccepts(_, _, _, _)
pathlib__fnmatch_internal_EndAccepts(p, q, s, t) ==
    LET r == pathlib__pat_next(p, q, UnknownLen)
        x == pathlib__str_next(s, t, UnknownLen)
    IN  IF r.c = UNMATCHABLE THEN FNM_NOMATCH
        ELSE IF r.c = STAR THEN AfterStar(p, q + 1, s, t)
        ELSE IF x.k <= 0 THEN 0
        ELSE IF ~TokenAccepts(p, q, r.c, x.k) THEN FNM_NOMATCH
        ELSE pathlib__fnmatch_internal_EndAccepts(p, q + r.step, s, t + x.step)

\* the first "for (;;)": the pattern up to its first '*'
RECURSIVE pathlib__fnmatch_internal(_, _, _, _)
pathlib__fnmatch_internal(p, q, s, t) ==
    LET r == pathlib__pat_next(p, q, UnknownLen)
        x == pathlib__str_next(s, t, UnknownLen)
    IN  IF r.c = UNMATCHABLE THEN FNM_NOMATCH
        ELSE IF r.c = STAR THEN AfterStar(p, q + 1, s, t)
        ELSE IF x.k <= 0 THEN (IF r.c = END THEN 0 ELSE FNM_NOMATCH)
        ELSE IF ~TokenAccepts(p, q, r.c, x.k) THEN FNM_NOMATCH
        ELSE pathlib__fnmatch_internal(p, q + r.step, s, t + x.step)

pathlib__fnmatch(p, s) == pathlib__fnmatch_internal(p, 1, s, 1)

(***************************************************************************)
(* Error kinds (Pathlib_Error) and the Paths collection.                   *)
(***************************************************************************)
PATHLIB_NONE    == 0
PATHLIB_EXISTS  == 1
PATHLIB_NEXISTS == 2
PATHLIB_OSERROR == 3
Pathlib_Error   == {PATHLIB_NONE, PATHLIB_EXISTS, PATHLIB_NEXISTS, PATHLIB_OSERROR}

\* "results.paths = NULL; results.size = 0; results.capacity = 0;"
EmptyPaths == [paths |-> <<>>, size |-> 0, capacity |-> 0, alloc |-> FALSE]

\* an empty Path object
EmptyPath == [parts |-> <<>>, size |-> 0, capacity |-> 0]

\* the Path variables while no Path operation is modelled
PathIdle ==
    /\ argStr = <<>>
    /\ thePath = EmptyPath
    /\ outStr = <<>>
    /\ callArg = <<>>

\* the walker's variables while no walk is modelled
WalkerIdle ==
    /\ fs = <<>>
    /\ pathlib_error = PATHLIB_NONE
    /\ pattern = <<>>
    /\ recursive = 0
    /\ stack = <<>>
    /\ callRet = -1
    /\ results = EmptyPaths
    /\ open = {}
    /\ opened = <<>>

(***************************************************************************)
(* Calls of pathlib__fnmatch.  The arguments are drawn in the initial      *)
(* state from bounded families of (pattern, name) pairs.                   *)
(***************************************************************************)
MaxWildLen == 5     \* longest pattern over literals, '?' and '*'
MaxNameLen == 4     \* longest name matched against those patterns
MaxLitLen  == 2     \* longest wildcard-free pattern
MaxSetLen  == 2     \* most members written in a bracket expression
MaxQuest   == 2     \* longest pattern made of '?' only
MaxOpenLen == 3     \* longest pattern with a '[' that nothing closes
MaxEscName == 2     \* longest name matched against an escaped metacharacter
MaxStarName == 3    \* longest name matched against "*"

SeqsUpTo(A, n) == UNION { [1..k -> A] : k \in 0..n }

Letters      == {97, 98}                    \* a b
WildAlphabet == Letters \cup {chQuest, chStar}
\* a A and two bytes >= 0x80 (0x80, 0xFC)
LitAlphabet  == {97, 65, 128, 252}
SetAlphabet  == {97, 98, 99}                \* a b c
\* a b c d ^ !
AsciiNameAlphabet == {97, 98, 99, 100, chCaret, chBang}
Bytes        == 1..255

WildInputs ==
    SeqsUpTo(WildAlphabet, MaxWildLen) \X SeqsUpTo(Letters, MaxNameLen)

LitInputs ==
    SeqsUpTo(LitAlphabet, MaxLitLen) \X SeqsUpTo(LitAlphabet, MaxLitLen + 1)

QuestInputs ==
    (SeqsUpTo({chQuest}, MaxQuest) \ {<<>>})
        \X (SeqsUpTo(Bytes, 1) \cup SeqsUpTo({97, 128}, MaxQuest + 1))

BracketOf(prefix, S) == <<chLBrack>> \o prefix \o S \o <<chRBrack>>
SetBodies == SeqsUpTo(SetAlphabet, MaxSetLen) \ {<<>>}
BracketPatterns ==
    { BracketOf(pre, S) : pre \in {<<>>, <<chCaret>>, <<chBang>>}, S \in SetBodies }
BracketInputs ==
    BracketPatterns \X (SeqsUpTo(AsciiNameAlphabet, 2) \cup {<<128>>})

\* "[[:name:]]" for each name of the table, against every one-character
\* ASCII name
ClassPattern(name) ==
    <<chLBrack, chLBrack, chColon>> \o name \o <<chColon, chRBrack, chRBrack>>
ClassInputs ==
    { ClassPattern(ClassNames[i]) : i \in 1..Len(ClassNames) }
        \X { <<c>> : c \in 1..127 }

\* patterns with a '[' and no ']' after it: [ a ! ? *
OpenAlphabet == {chLBrack, 97, chBang, chQuest, chStar}
OpenInputs ==
    { p \in SeqsUpTo(OpenAlphabet, MaxOpenLen) : chLBrack \in { p[i] : i \in 1..Len(p) } }
        \X SeqsUpTo({chLBrack, 97, 98}, MaxOpenLen)

\* "\x" and "*\x" for each metacharacter x, against names over the
\* metacharacters, a letter and a byte >= 0x80
Metachars == {chStar, chQuest, chLBrack, chBSlash}
EscapeInputs ==
    ({ <<chBSlash, x>> : x \in Metachars } \cup { <<chStar, chBSlash, x>> : x \in Metachars })
        \X SeqsUpTo(Metachars \cup {97, 128}, MaxEscName)

\* "*" against every one-byte name and names over a letter, a byte
\* >= 0x80 and the characters that are special in patterns
StarInputs ==
    {<<chStar>>}
        \X (SeqsUpTo(Bytes, 1)
                \cup SeqsUpTo(Metachars \cup {97, 128, chRBrack}, MaxStarName))

MatchInputs ==
    WildInputs \cup LitInputs \cup QuestInputs \cup BracketInputs \cup ClassInputs
        \cup OpenInputs \cup EscapeInputs \cup StarInputs

\* the library's reading of a class number matters only to a pattern that
\* names a class
InitFnmatch ==
    /\ charSigned \in BOOLEAN
    /\ \E in \in MatchInputs :
          /\ pat = in[1] /\ str = in[2]
          /\ libcWctype \in (IF in \in ClassInputs THEN LibcWctypes ELSE {"position"})
    /\ ret = -1
    /\ pc = "call"
    /\ WalkerIdle
    /\ PathIdle

\* int pathlib__fnmatch(const char *pat, const char *str)
Fnmatch ==
    /\ pc = "call"
    /\ ret' = pathlib__fnmatch(pat, str)
    /\ pc' = "done"
    /\ UNCHANGED <<charSigned, libcWctype, pvars, pat, str, wvars>>

NextFnmatch == Fnmatch

SpecFnmatch == InitFnmatch /\ [][NextFnmatch]_vars

(***************************************************************************)
(* Reference semantics of shell wildcards: '*' is any run of characters,   *)
(* '?' any one character, anything else itself.                            *)
(***************************************************************************)
RECURSIVE RefMatch(_, _)
RefMatch(p, n) ==
    IF p = <<>> THEN n = <<>>
    ELSE IF Head(p) = chStar
    THEN RefMatch(Tail(p), n) \/ (n # <<>> /\ RefMatch(p, Tail(n)))
    ELSE IF Head(p) = chQuest
    THEN n # <<>> /\ RefMatch(Tail(p), Tail(n))
    ELSE n # <<>> /\ Head(n) = Head(p) /\ RefMatch(Tail(p), Tail(n))

Range(s) == { s[i] : i \in 1..Len(s) }
Matched == pc = "done" /\ ret = 0

\* C1: for patterns of literals, '?' and '*' and names over a small
\* alphabet, pathlib__fnmatch returns 0 exactly when the reference
\* backtracking matcher accepts the name.
C1_FnmatchAgreesWithReference ==
    (pc = "done" /\ Range(pat) \subseteq WildAlphabet /\ Range(str) \subseteq Letters)
        => ((ret = 0) <=> RefMatch(pat, str))

\* a component between two stars that only fits after sliding one place
C1_Witness ==
    /\ Matched
    /\ pat = <<chStar, 97, 98, chStar>>
    /\ str = <<97, 97, 98>>

\* C2 (as claimed): a pattern with none of * ? [ \ matches a name iff the
\* two are byte-for-byte equal, for all non-NUL bytes.
C2_LiteralPatternMatchesIffEqual ==
    (pc = "done" /\ Range(pat) \cap {chStar, chQuest, chLBrack, chBSlash} = {})
        => ((ret = 0) <=> (pat = str))

\* C9 (as claimed): the pattern "?" matches a name iff the name is exactly
\* one character long, whatever non-NUL byte that character is; a pattern
\* of j '?' matches exactly the names of length j.
C9_QuestionMatchesExactlyOneChar ==
    (pc = "done" /\ pat # <<>> /\ Range(pat) = {chQuest})
        => ((ret = 0) <=> (Len(str) = Len(pat)))

IsBracketPattern(p) ==
    /\ Len(p) >= 3
    /\ p[1] = chLBrack
    /\ p[Len(p)] = chRBrack
    /\ LET b == IF p[2] \in {chCaret, chBang} THEN 3 ELSE 2
       IN  /\ b < Len(p)
           /\ \A i \in b..(Len(p) - 1) : p[i] \in SetAlphabet

BracketNegated(p) == p[2] \in {chCaret, chBang}
BracketMembers(p) ==
    { p[i] : i \in (IF BracketNegated(p) THEN 3 ELSE 2)..(Len(p) - 1) }

Digits == 48..57
Uppers == 65..90
Lowers == 97..122
PosixClass(name) ==
    CASE name = ClassNames[1]  -> Digits \cup Uppers \cup Lowers           \* alnum
      [] name = ClassNames[2]  -> Uppers \cup Lowers                       \* alpha
      [] name = ClassNames[3]  -> {9, 32}                                  \* blank
      [] name = ClassNames[4]  -> (1..31) \cup {127}                       \* cntrl
      [] name = ClassNames[5]  -> Digits                                   \* digit
      [] name = ClassNames[6]  -> 33..126                                  \* graph
      [] name = ClassNames[7]  -> Lowers                                   \* lower
      [] name = ClassNames[8]  -> 32..126                                  \* print
      [] name = ClassNames[9]  -> (33..126) \ (Digits \cup Uppers \cup Lowers)  \* punct
      [] name = ClassNames[10] -> {32} \cup (9..13)                        \* space
      [] name = ClassNames[11] -> Uppers                                   \* upper
      [] name = ClassNames[12] -> Digits \cup (65..70) \cup (97..102)      \* xdigit

IsClassPattern(p) == \E i \in 1..Len(ClassNames) : p = ClassPattern(ClassNames[i])
ClassNameOf(p) == SubSeq(p, 4, Len(p) - 3)

\* C11 (as claimed): for each of the twelve class names and every
\* one-character ASCII name c, "[[:name:]]" matches c iff c belongs to the
\* class of that name.
C11_ClassPatternMatchesMembers ==
    (pc = "done" /\ IsClassPattern(pat) /\ Len(str) = 1 /\ str[1] < 128)
        => ((ret = 0) <=> (str[1] \in PosixClass(ClassNameOf(pat))))

\* C12: a '[' that no later ']' closes is the literal character '[', and
\* what follows it is read as ordinary pattern characters: the pattern
\* matches as the reference matcher (in which '[' is a literal) says, so a
\* pattern such as "[a" matches exactly the name "[a".
C12_UnclosedBracketIsLiteral ==
    (pc = "done" /\ Range(pat) \subseteq OpenAlphabet /\ chLBrack \in Range(pat)
        /\ Range(str) \subseteq {chLBrack, 97, 98})
        => ((ret = 0) <=> RefMatch(pat, str))

\* "[a?" against "[ab"
C12_Witness ==
    /\ Matched
    /\ pat = <<chLBrack, 97, chQuest>>
    /\ str = <<chLBrack, 97, 98>>

\* C13: for every metacharacter x of * ? [ \, the pattern backslash-x
\* matches a name iff the name is the single character x, and the pattern
\* '*' backslash-x matches exactly the names that end with x (the escape
\* pair is one unit of the tail after the last '*').  (Names of ASCII
\* characters.)
AsciiName == \A i \in 1..Len(str) : str[i] < 128
C15_StarMatchesEveryName ==
    (pc = "done" /\ pat = <<chStar>>) => ret = 0

\* "*" against "[*]"
C15_Witness ==
    /\ Matched
    /\ pat = <<chStar>>
    /\ str = <<chLBrack, chStar, chRBrack>>

(***************************************************************************)
(* Path: parsing and rendering.  A Path is [parts, size, capacity]; size   *)
(* and capacity are unsigned short.                                        *)
(***************************************************************************)
USHORT == 65536

IsSep(b) == b = chSlash \/ b = chBSlash

\* the segments pathlib_from_str cuts its input into: one more than the
\* number of separators, empty ones included
RECURSIVE SplitSeps(_, _)
SplitSeps(s, cur) ==
    IF s = <<>> THEN <<cur>>
    ELSE IF IsSep(Head(s)) THEN <<cur>> \o SplitSeps(Tail(s), <<>>)
    ELSE SplitSeps(Tail(s), Append(cur, Head(s)))

pathlib_from_str(instr) ==
    LET part_count == 1 + Cardinality({ i \in 1..Len(instr) : IsSep(instr[i]) })
        parts      == SplitSeps(instr, <<>>)
    IN  [parts |-> parts, size |-> Len(parts) % USHORT, capacity |-> part_count % USHORT]

\* "capacity == 0 ? 4 : (int)(capacity*1.5 + 1)" stored in an unsigned short
GrowCapacity(capacity) ==
    IF capacity = 0 THEN 4 ELSE ((3 * capacity) \div 2 + 1) % USHORT

\* pathlib_add_part.  parts holds the segments in slots 0..size-1.  Where the
\* new capacity is below size the memcpy into the new array overruns it; the
\* fields are given as the code assigns them.
pathlib_add_part(path, part) ==
    LET capacity == IF path.size >= path.capacity
                    THEN GrowCapacity(path.capacity)
                    ELSE path.capacity
    IN  [parts    |-> Append(path.parts, part),
         size     |-> (path.size + 1) % USHORT,
         capacity |-> capacity]

\* the bytes pathlib_to_str writes into region before the terminator: every
\* segment followed by '/'
RECURSIVE ToStrLoop(_, _, _)
ToStrLoop(path, i, region) ==
    IF ~(i < path.size) THEN region
    ELSE ToStrLoop(path, i + 1, region \o path.parts[i + 1] \o <<chSlash>>)

RECURSIVE SumLen(_, _)
SumLen(path, i) ==
    IF ~(i < path.size) THEN 0 ELSE Len(path.parts[i + 1]) + SumLen(path, i + 1)

\* pathlib_to_str leaving the '/' written after the last segment
pathlib_to_str_KeepLast(path) ==
    IF path.size = 0 THEN <<>> ELSE ToStrLoop(path, 0, <<>>)

\* pathlib_to_str: region[total_size] = 0 ends the string
pathlib_to_str(path) ==
    LET total_size == SumLen(path, 0) + (IF path.size > 0 THEN path.size - 1 ELSE 0)
    IN  IF path.size = 0 THEN <<>>
        ELSE SubSeq(ToStrLoop(path, 0, <<>>), 1, total_size)

\* pathlib_is_absolute, the branch compiled where _WIN32 is not defined
pathlib_is_absolute(path) ==
    IF \E i \in 0..(path.size - 1) : At(path.parts[i + 1], 1) = chSlash THEN 1 ELSE 0

\* PATH_MAX of <linux/limits.h>, the size of every path buffer
PATHLIB_MAX_PATH == 4096

\* pathlib_render_str_to_buffer: [ok, str], the segments joined by '/'
RECURSIVE RenderLoop(_, _, _, _)
RenderLoop(path, i, buffer_size, out) ==
    IF ~(buffer_size > 0) THEN [ok |-> FALSE, str |-> out]
    ELSE LET part == path.parts[i + 1]
             left == buffer_size - Len(part)
         IN  IF Len(part) > buffer_size THEN [ok |-> FALSE, str |-> out]
             ELSE IF left < 1 THEN [ok |-> FALSE, str |-> out \o part]
             ELSE IF i + 1 # path.size
             THEN RenderLoop(path, i + 1, left - 1, out \o part \o <<chSlash>>)
             ELSE [ok |-> TRUE, str |-> out \o part]

pathlib_render_str_to_buffer(path, buffer_size) ==
    IF path.size = 0
    THEN [ok |-> buffer_size >= 1, str |-> <<>>]
    ELSE RenderLoop(path, 0, buffer_size, <<>>)

\* snprintf(fullpath, sizeof(fullpath), "%s/%s", base_path, name): never
\* negative, the output cut to the buffer
Snprintf(base_path, name) ==
    LET whole == base_path \o <<chSlash>> \o name
    IN  IF Len(whole) < PATHLIB_MAX_PATH THEN whole
        ELSE SubSeq(whole, 1, PATHLIB_MAX_PATH - 1)

\* pathlib_paths_add
pathlib_paths_add(paths, path) ==
    LET capacity == IF paths.size >= paths.capacity
                    THEN (IF paths.capacity = 0 THEN 4 ELSE paths.capacity * 2)
                    ELSE paths.capacity
    IN  [paths    |-> Append(paths.paths, path),
         size     |-> paths.size + 1,
         capacity |-> capacity,
         alloc    |-> TRUE]

\* what slot j (from 0) of the array holds: a stored Path below size, and
\* above it whatever the memory has (a stale copy, or bytes past the
\* allocation when j = capacity)
Junk == "junk"
Slot(paths, j) == IF j < paths.size THEN paths.paths[j + 1] ELSE Junk

\* pathlib_paths_pop putting the last element in the place of the i-th
pathlib_paths_pop_SwapLast(paths, i) ==
    IF paths.size = 0 THEN paths
    ELSE IF paths.size - 1 = i
    THEN [paths EXCEPT !.paths = SubSeq(paths.paths, 1, paths.size - 1),
                       !.size = paths.size - 1]
    ELSE [paths EXCEPT !.paths = [j \in 1..(paths.size - 1) |->
                                     IF j - 1 = i THEN Slot(paths, paths.size - 1)
                                     ELSE Slot(paths, j - 1)],
                       !.size = paths.size - 1]

\* pathlib_paths_pop (i < size asserted by the caller's contract): the
\* memmove copies size - i slots, those from i+1 to size, down by one; the
\* array is then cut to the new size
pathlib_paths_pop(paths, i) ==
    IF paths.size = 0 THEN paths
    ELSE IF paths.size - 1 = i
    THEN [paths EXCEPT !.paths = SubSeq(paths.paths, 1, paths.size - 1),
                       !.size = paths.size - 1]
    ELSE LET moved == [j \in 1..paths.size |->
                          IF j - 1 >= i /\ j - 1 < i + (paths.size - i)
                          THEN Slot(paths, j)
                          ELSE Slot(paths, j - 1)]
         IN  [paths EXCEPT !.paths = SubSeq(moved, 1, paths.size - 1),
                           !.size = paths.size - 1]

\* pathlib_paths_free leaving the collection as it is
pathlib_paths_free_Keep(paths) == paths

\* pathlib_paths_free
pathlib_paths_free(paths) ==
    IF paths.alloc THEN EmptyPaths ELSE paths

(***************************************************************************)
(* Calls on one Path object: pathlib_from_str on a string drawn in the     *)
(* initial state, then pathlib_to_str, pathlib_is_absolute or a few        *)
(* pathlib_add_part calls; or pathlib_add_part calls on an empty Path.     *)
(* The initial state is also a Path that earlier pathlib_add_part calls on *)
(* an empty Path have just filled: size = capacity = c for every capacity  *)
(* c of the growth sequence 4, 7, 11, ... that is reached without the      *)
(* unsigned short wrapping.                                                *)
(***************************************************************************)
MaxStrLen == 4      \* longest string handed to pathlib_from_str
MaxAdds   == 2      \* most pathlib_add_part calls in one behaviour

PathStrings == SeqsUpTo({97, 98, chSlash, chBSlash}, MaxStrLen)
Parts       == { <<97>>, <<98>> }

RECURSIVE GrowthChain(_)
GrowthChain(c) ==
    IF GrowCapacity(c) <= c THEN {c} ELSE {c} \cup GrowthChain(GrowCapacity(c))
GrowthCaps == GrowthChain(GrowCapacity(0))

FullPath(c) == [parts |-> [i \in 1..c |-> <<97>>], size |-> c, capacity |-> c]

InitPath ==
    /\ charSigned = FALSE /\ libcWctype = "position"
    /\ pat = <<>> /\ str = <<>> /\ ret = -1
    /\ WalkerIdle
    /\ outStr = <<>>
    /\ callArg = <<>>
    /\ \/ pc = "new" /\ argStr \in PathStrings /\ thePath = EmptyPath
       \/ pc = "added" /\ argStr = <<>> /\ \E c \in GrowthCaps : thePath = FullPath(c)

\* Path pathlib_from_str(const char* instr)
FromStr ==
    /\ pc = "new"
    /\ thePath' = pathlib_from_str(argStr)
    /\ pc' = "parsed"
    /\ UNCHANGED <<charSigned, libcWctype, pat, str, ret, wvars, argStr, outStr, callArg>>

\* char* pathlib_to_str(const Path* path)
ToStr ==
    /\ pc = "parsed"
    /\ outStr' = pathlib_to_str(thePath)
    /\ pc' = "rendered"
    /\ UNCHANGED <<charSigned, libcWctype, pat, str, ret, wvars, argStr, thePath, callArg>>

\* int pathlib_is_absolute(const Path* path)
IsAbsolute ==
    /\ pc = "parsed"
    /\ ret' = pathlib_is_absolute(thePath)
    /\ pc' = "tested"
    /\ UNCHANGED <<charSigned, libcWctype, pat, str, wvars, argStr, thePath, outStr, callArg>>

\* void pathlib_add_part(Path* path, const char* part); callArg lists the
\* parts added so far
AddPart ==
    /\ pc \in {"new", "parsed", "added"}
    /\ Len(callArg) < MaxAdds
    /\ \E part \in Parts :
          /\ thePath' = pathlib_add_part(thePath, part)
          /\ callArg' = Append(callArg, part)
    /\ pc' = "added"
    /\ UNCHANGED <<charSigned, libcWctype, pat, str, ret, wvars, argStr, outStr>>

NextPath == FromStr \/ ToStr \/ IsAbsolute \/ AddPart

SpecPath == InitPath /\ [][NextPath]_vars

\* a string of one or more non-empty segments joined by single separators
\* of one style, with no separator first or last
OneStyle(s) == ~(chSlash \in Range(s) /\ chBSlash \in Range(s))
WellFormed(s) ==
    /\ s # <<>>
    /\ ~IsSep(s[1]) /\ ~IsSep(s[Len(s)])
    /\ \A i \in 1..(Len(s) - 1) : ~(IsSep(s[i]) /\ IsSep(s[i + 1]))
    /\ OneStyle(s)
Slashed(s) == [i \in 1..Len(s) |-> IF s[i] = chBSlash THEN chSlash ELSE s[i]]
SegmentCount(s) == 1 + Cardinality({ i \in 1..Len(s) : IsSep(s[i]) })

\* C16: for a string s of non-empty segments joined by single separators of
\* one style, pathlib_to_str(pathlib_from_str(s)) is s with every backslash
\* replaced by '/': no separator at its end and one '/' fewer than segments.
C16_RoundTrip ==
    (pc = "rendered" /\ WellFormed(argStr))
        => /\ outStr = Slashed(argStr)
           /\ outStr[Len(outStr)] # chSlash
           /\ Cardinality({ i \in 1..Len(outStr) : outStr[i] = chSlash })
                  = SegmentCount(argStr) - 1

\* "a\b" rendered as "a/b"
C16_Witness ==
    /\ pc = "rendered"
    /\ argStr = <<97, chBSlash, 98>>
    /\ outStr = <<97, chSlash, 98>>

\* C17 (as claimed): every segment of pathlib_from_str(s) is a non-empty
\* string with neither '/' nor a backslash in it, whatever s is.
C17_SegmentsNonEmptyWithoutSeparators ==
    pc = "parsed"
        => \A i \in 1..Len(thePath.parts) :
               /\ thePath.parts[i] # <<>>
               /\ \A j \in 1..Len(thePath.parts[i]) : ~IsSep(thePath.parts[i][j])

\* C18 (as claimed): after every pathlib_add_part call size <= capacity, and
\* the segments are the earlier ones followed by the added one, growth steps
\* of the 16-bit capacity included.
C18_AddPartWithinCapacity ==
    [][pc' = "added"
        => /\ thePath'.size <= thePath'.capacity
           /\ thePath'.parts = Append(thePath.parts, callArg'[Len(callArg')])]_vars

\* C20 (as claimed): pathlib_is_absolute(pathlib_from_str(s)) is 1 exactly
\* when s begins with '/'.
C20_AbsoluteIffLeadingSlash ==
    pc = "tested" => ((ret = 1) <=> (argStr # <<>> /\ argStr[1] = chSlash))

(***************************************************************************)
(* Calls on one Paths collection: pathlib_paths_add of one of three Path   *)
(* objects and pathlib_paths_pop of any index below size, starting from    *)
(* the empty collection.  callArg is the index given to the last pop.      *)
(***************************************************************************)
MaxPaths == 5       \* most elements held by the collection

PathItems == { pathlib_from_str(<<c>>) : c \in {97, 98, 99} }

InitPaths ==
    /\ charSigned = FALSE /\ libcWctype = "position"
    /\ pat = <<>> /\ str = <<>> /\ ret = -1
    /\ pc = "new"
    /\ WalkerIdle
    /\ argStr = <<>> /\ thePath = EmptyPath /\ outStr = <<>>
    /\ callArg = 0

\* void pathlib_paths_add(Paths* paths, const Path path)
PathsAdd ==
    /\ results.size < MaxPaths
    /\ \E item \in PathItems : results' = pathlib_paths_add(results, item)
    /\ pc' = "added"
    /\ UNCHANGED <<charSigned, libcWctype, pvars, pat, str, ret, fs, pathlib_error,
                   pattern, recursive, stack, callRet, open, opened>>

\* void pathlib_paths_pop(Paths* paths, size_t i)
PathsPop ==
    /\ \E i \in 0..(results.size - 1) :
          /\ results' = pathlib_paths_pop(results, i)
          /\ callArg' = i
    /\ pc' = "popped"
    /\ UNCHANGED <<charSigned, libcWctype, argStr, thePath, outStr, pat, str, ret, fs,
                   pathlib_error, pattern, recursive, stack, callRet, open, opened>>

NextPaths == PathsAdd \/ PathsPop

SpecPaths == InitPaths /\ [][NextPaths]_vars

\* C19: pathlib_paths_pop(paths, i) with i < size removes exactly the i-th
\* element: size is one smaller, the elements before i stay where they
\* are, every element after i moves one place down, capacity is unchanged.
C19_PopRemovesIth ==
    [][pc' = "popped"
        => /\ results'.size = results.size - 1
           /\ Len(results'.paths) = results'.size
           /\ \A j \in 0..(callArg' - 1) : results'.paths[j + 1] = results.paths[j + 1]
           /\ \A j \in (callArg' + 1)..(results.size - 1) :
                  results'.paths[j] = results.paths[j + 1]
           /\ results'.capacity = results.capacity]_vars

\* the second of four elements removed from a full array of four
C19_Witness ==
    /\ pc = "popped"
    /\ callArg = 1
    /\ results.size = 3 /\ results.capacity = 4
    /\ results.paths = << pathlib_from_str(<<97>>), pathlib_from_str(<<99>>),
                          pathlib_from_str(<<98>>) >>

(***************************************************************************)
(* The file system seen by access, stat, opendir and readdir.              *)
(* Node 0 is what the root Path names.  Node n > 0 lies in directory       *)
(* Parent(n).  Kinds: "dir"; "locked", a directory that opendir cannot     *)
(* open; "file"; "dangling", an entry whose stat fails (a link to nothing);*)
(* "none", no such entry.                                                  *)
(***************************************************************************)
NodeCount == 5      \* nodes below the root
RootWidth == 2      \* entries directly inside the root

Nodes     == 0..NodeCount
Parent(n) == IF n <= RootWidth THEN 0 ELSE n - RootWidth
Kinds     == {"dir", "locked", "file", "dangling", "none"}

\* entry names: b, ab, a, b, ab, ...
EntryNames == << <<98>>, <<97, 98>>, <<97>> >>
Name(n)    == EntryNames[((n - 1) % 3) + 1]
DotName    == <<chDot>>
DotDotName == <<chDot, chDot>>

\* the root Path of every walk, parsed from "d/r"
RootPath == pathlib_from_str(<<100, chSlash, 114>>)

FileSystems ==
    { f \in [Nodes -> Kinds] :
        \A n \in Nodes \ {0} :
            IF f[Parent(n)] = "dir" THEN f[n] # "none" ELSE f[n] = "none" }

\* the '/'-separated components of a path string, as the kernel reads it
RECURSIVE SplitSlash(_, _)
SplitSlash(s, cur) ==
    IF s = <<>> THEN (IF cur = <<>> THEN <<>> ELSE <<cur>>)
    ELSE IF Head(s) = chSlash
    THEN (IF cur = <<>> THEN <<>> ELSE <<cur>>) \o SplitSlash(Tail(s), <<>>)
    ELSE SplitSlash(Tail(s), Append(cur, Head(s)))

\* the components that name node n
RECURSIVE NodeParts(_)
NodeParts(n) ==
    IF n = 0 THEN RootPath.parts ELSE Append(NodeParts(Parent(n)), Name(n))

\* a symbolic link (kind "link") names the directory entry LinkTo
LinkTo == 2

HasPrefix(p, q) == Len(p) <= Len(q) /\ SubSeq(q, 1, Len(p)) = p

\* the node the components name; a link met on the way is followed, the
\* last component only if follow
NoNode == -1
RECURSIVE Find(_, _, _)
Find(f, parts, follow) ==
    LET through == { n \in Nodes : /\ f[n] = "link"
                                   /\ HasPrefix(NodeParts(n), parts)
                                   /\ (follow \/ Len(NodeParts(n)) < Len(parts)) }
    IN  IF through # {}
        THEN LET n == CHOOSE n \in through : TRUE
             IN  Find(f, NodeParts(LinkTo)
                            \o SubSeq(parts, Len(NodeParts(n)) + 1, Len(parts)), follow)
        ELSE LET hit == { n \in Nodes : f[n] # "none" /\ NodeParts(n) = parts }
             IN  IF hit = {} THEN NoNode ELSE CHOOSE n \in hit : TRUE

Resolve(f, s) == Find(f, SplitSlash(s, <<>>), TRUE)

\* access(filename, F_OK) == 0
Access(f, s) ==
    LET n == Resolve(f, s) IN n # NoNode /\ f[n] # "dangling"
\* stat(filename, &st): [ok, isdir]
Stat(f, s) ==
    LET n  == Resolve(f, s)
        ok == n # NoNode /\ f[n] # "dangling"
    IN  [ok |-> ok, isdir |-> ok /\ f[n] \in {"dir", "locked"},
         isreg |-> ok /\ f[n] = "file"]
\* opendir(base_path) != NULL
CanOpen(f, s) ==
    LET n == Resolve(f, s) IN n # NoNode /\ f[n] = "dir"
\* the names readdir delivers for directory node d
Entries(f, d) ==
    {DotName, DotDotName} \cup { Name(n) : n \in { c \in Nodes \ {0} : Parent(c) = d /\ f[c] # "none" } }

\* pathlib_exists
pathlib_exists(f, path) ==
    LET r == pathlib_render_str_to_buffer(path, PATHLIB_MAX_PATH)
    IN  r.ok /\ Access(f, r.str)

\* pathlib_is_dir without the S_IFDIR test
pathlib_is_dir_AnyKind(f, path) ==
    LET r == pathlib_render_str_to_buffer(path, PATHLIB_MAX_PATH)
    IN  IF ~pathlib_exists(f, path) THEN [ret |-> 0, err |-> PATHLIB_NONE]
        ELSE IF ~r.ok THEN [ret |-> 0, err |-> PATHLIB_NONE]
        ELSE IF ~Stat(f, r.str).ok THEN [ret |-> 0, err |-> PATHLIB_OSERROR]
        ELSE [ret |-> 1, err |-> PATHLIB_NONE]

\* pathlib_is_dir: [ret, err], err being pathlib_error on return
pathlib_is_dir(f, path) ==
    LET r == pathlib_render_str_to_buffer(path, PATHLIB_MAX_PATH)
    IN  IF ~pathlib_exists(f, path) THEN [ret |-> 0, err |-> PATHLIB_NONE]
        ELSE IF ~r.ok THEN [ret |-> 0, err |-> PATHLIB_NONE]
        ELSE IF ~Stat(f, r.str).ok THEN [ret |-> 0, err |-> PATHLIB_OSERROR]
        ELSE [ret |-> IF Stat(f, r.str).isdir THEN 1 ELSE 0, err |-> PATHLIB_NONE]

(***************************************************************************)
(* The walker.  A frame of pathlib__recursive_glob is [base_path, at, dir, *)
(* pending]: at is "opendir" before the directory is opened and "readdir"  *)
(* inside the loop; dir is the node the handle reads; pending are the      *)
(* entries readdir has not delivered yet (their order is the system's).    *)
(***************************************************************************)
Patterns == { <<chStar>>, <<97, chStar>>, <<98>> }      \* "*", "a*", "b"

InitGlob ==
    /\ charSigned \in BOOLEAN
    /\ libcWctype = "position"             \* no pattern of Patterns names a class
    /\ PathIdle
    /\ pc = "call"
    /\ pat = <<>> /\ str = <<>> /\ ret = -1
    /\ fs \in FileSystems
    /\ pathlib_error \in Pathlib_Error      \* as left by earlier calls
    /\ pattern = <<>>
    /\ recursive = 0
    /\ stack = <<>>
    /\ callRet = -1
    /\ results = EmptyPaths
    /\ open = {}
    /\ opened = [n \in Nodes |-> 0]

Top == stack[Len(stack)]
Pop == SubSeq(stack, 1, Len(stack) - 1)

\* pathlib_glob / pathlib_rglob up to the call of pathlib__recursive_glob
GlobEnter(path, pattern_arg, recursive_arg) ==
    LET isdir    == pathlib_is_dir(fs, path)
        fullpath == pathlib_render_str_to_buffer(path, PATHLIB_MAX_PATH)
    IN  /\ pc = "call"
        /\ pattern' = pattern_arg
        /\ recursive' = recursive_arg
        /\ results' = EmptyPaths
        /\ IF isdir.ret = 0 \/ ~fullpath.ok
           THEN /\ pathlib_error' = PATHLIB_NEXISTS
                /\ pc' = "done"
                /\ stack' = <<>>
           ELSE /\ pathlib_error' = isdir.err
                /\ pc' = "walk"
                /\ stack' = << [base_path |-> fullpath.str, at |-> "opendir",
                                dir |-> NoNode, pending |-> {}] >>
        /\ UNCHANGED <<charSigned, libcWctype, pvars, pat, str, ret, fs, callRet, open, opened>>

pathlib_glob  == \E p \in Patterns : GlobEnter(RootPath, p, 0)
pathlib_rglob == \E p \in Patterns : GlobEnter(RootPath, p, 1)

\* "dir = opendir(base_path); if (dir == NULL) { ... return 0; }"
Opendir ==
    /\ pc = "walk" /\ stack # <<>> /\ callRet # 0
    /\ Top.at = "opendir"
    /\ IF CanOpen(fs, Top.base_path)
       THEN LET d == Resolve(fs, Top.base_path)
            IN  /\ open' = open \cup {d}
                /\ opened' = [opened EXCEPT ![d] = @ + 1]
                /\ stack' = Append(Pop, [Top EXCEPT !.at = "readdir", !.dir = d,
                                                    !.pending = Entries(fs, d)])
                /\ UNCHANGED <<pathlib_error, callRet>>
       ELSE /\ pathlib_error' = PATHLIB_OSERROR
            /\ stack' = Pop
            /\ callRet' = 0
            /\ UNCHANGED <<open, opened>>
    /\ UNCHANGED <<charSigned, libcWctype, pvars, pc, pat, str, ret, fs, pattern, recursive, results>>

\* one turn of "while ((entry = readdir(dir)) != NULL)" for the entry d_name
ReaddirEntry(d_name) ==
    LET fullpath  == Snprintf(Top.base_path, d_name)
        path_stat == Stat(fs, fullpath)
        rest      == [Top EXCEPT !.pending = @ \ {d_name}]
    IN  IF d_name = DotName \/ d_name = DotDotName
        THEN /\ stack' = Append(Pop, rest)
             /\ UNCHANGED results
        ELSE IF ~path_stat.ok
        THEN /\ stack' = Append(Pop, rest)
             /\ UNCHANGED results
        ELSE IF path_stat.isdir
        THEN /\ stack' = IF recursive # 0
                         THEN Append(Append(Pop, rest),
                                     [base_path |-> fullpath, at |-> "opendir",
                                      dir |-> NoNode, pending |-> {}])
                         ELSE Append(Pop, rest)
             /\ UNCHANGED results
        ELSE /\ stack' = Append(Pop, rest)
             /\ results' = IF pathlib__fnmatch(pattern, d_name) = 0
                           THEN pathlib_paths_add(results, pathlib_from_str(fullpath))
                           ELSE results

Readdir ==
    /\ pc = "walk" /\ stack # <<>> /\ callRet # 0
    /\ Top.at = "readdir"
    /\ Top.pending # {}
    /\ \E d_name \in Top.pending : ReaddirEntry(d_name)
    /\ UNCHANGED <<charSigned, libcWctype, pvars, pc, pat, str, ret, fs, pathlib_error, pattern,
                   recursive, callRet, open, opened>>

\* the return at the end of the directory without closedir
FrameReturn_NoClose ==
    /\ pc = "walk" /\ stack # <<>> /\ callRet # 0
    /\ Top.at = "readdir"
    /\ Top.pending = {}
    /\ stack' = Pop
    /\ callRet' = 1
    /\ UNCHANGED <<charSigned, libcWctype, pvars, pc, pat, str, ret, fs, pathlib_error, pattern,
                   recursive, results, open, opened>>

\* readdir returned NULL: "closedir(dir); return 1;"
FrameReturn ==
    /\ pc = "walk" /\ stack # <<>> /\ callRet # 0
    /\ Top.at = "readdir"
    /\ Top.pending = {}
    /\ open' = open \ {Top.dir}
    /\ stack' = Pop
    /\ callRet' = 1
    /\ UNCHANGED <<charSigned, libcWctype, pvars, pc, pat, str, ret, fs, pathlib_error, pattern,
                   recursive, results, opened>>

\* the abort path returning without closedir
FrameAbort_Leak ==
    /\ pc = "walk" /\ stack # <<>> /\ callRet = 0
    /\ stack' = Pop
    /\ UNCHANGED <<charSigned, libcWctype, pvars, pc, pat, str, ret, fs, pathlib_error, pattern,
                   recursive, callRet, results, open, opened>>

\* the nested call returned 0: "closedir(dir); return 0;"
FrameAbort ==
    /\ pc = "walk" /\ stack # <<>> /\ callRet = 0
    /\ open' = open \ {Top.dir}
    /\ stack' = Pop
    /\ UNCHANGED <<charSigned, libcWctype, pvars, pc, pat, str, ret, fs, pathlib_error, pattern,
                   recursive, callRet, results, opened>>

\* back in pathlib_glob / pathlib_rglob:
\* "if (!pathlib__recursive_glob(...)) pathlib_paths_free(&results); return results;"
GlobReturn ==
    /\ pc = "walk" /\ stack = <<>>
    /\ results' = IF callRet = 0 THEN pathlib_paths_free(results) ELSE results
    /\ pc' = "done"
    /\ UNCHANGED <<charSigned, libcWctype, pvars, pat, str, ret, fs, pathlib_error, pattern,
                   recursive, stack, callRet, open, opened>>

NextGlob ==
    \/ pathlib_glob
    \/ pathlib_rglob
    \/ Opendir
    \/ Readdir
    \/ FrameReturn
    \/ FrameAbort
    \/ GlobReturn

Spec == InitGlob /\ [][NextGlob]_vars

(***************************************************************************)
(* Properties of the walker.                                               *)
(***************************************************************************)
ResultSet     == { results.paths[i].parts : i \in 1..results.size }
BelowRoot     == Nodes \ {0}
InsideRoot    == { n \in BelowRoot : Parent(n) = 0 }
IsNonDir(n)   == fs[n] \in {"file", "dangling"}
Accepted(n)   == pathlib__fnmatch(pattern, Name(n)) = 0
GlobDone      == pc = "done" /\ recursive = 0
RglobDone     == pc = "done" /\ recursive = 1
\* the directories the walk has to open: the root, and for rglob all below
WalkOpens     == {0} \cup (IF recursive = 1
                           THEN { n \in BelowRoot : fs[n] \in {"dir", "locked"} }
                           ELSE {})
\* the entries the walk has to stat
WalkStats     == IF recursive = 1 THEN { n \in BelowRoot : fs[n] # "none" }
                 ELSE { n \in InsideRoot : fs[n] # "none" }
RootIsDir     == fs[0] \in {"dir", "locked"}
OpenFails     == RootIsDir /\ \E n \in WalkOpens : fs[n] = "locked"
StatFails     == RootIsDir /\ \E n \in WalkStats : fs[n] = "dangling"

\* C3 (as claimed): pathlib_glob on an existing directory returns exactly
\* root joined with the name of every non-directory entry directly inside
\* root whose name the matcher accepts, and nothing else.
C3_GlobReturnsMatchingFilesOfRoot ==
    (GlobDone /\ fs[0] = "dir")
        => ResultSet = { Append(RootPath.parts, Name(n)) :
                            n \in { m \in InsideRoot : IsNonDir(m) /\ Accepted(m) } }

\* C4 (as claimed): pathlib_rglob on an existing tree returns exactly the
\* full paths of all non-directory entries at any depth whose base name
\* the matcher accepts, each exactly once, and no directory.
C4_RglobReturnsMatchingFilesOfTree ==
    (RglobDone /\ fs[0] = "dir" /\ ~OpenFails)
        => /\ ResultSet = { NodeParts(n) :
                              n \in { m \in BelowRoot : IsNonDir(m) /\ Accepted(m) } }
           /\ Cardinality(ResultSet) = results.size

\* C5: when opening the root or a nested directory fails, the walk returns
\* an empty Paths and pathlib_error is PATHLIB_OSERROR, whatever had been
\* accumulated before.
C5_OpenFailureAbortsWalk ==
    (pc = "done" /\ OpenFails)
        => /\ results.size = 0
           /\ results.paths = <<>>
           /\ pathlib_error = PATHLIB_OSERROR

\* rglob("a*") over a root holding the file ab and a directory whose only
\* entry cannot be opened
C5_Witness ==
    /\ RglobDone
    /\ pattern = <<97, chStar>>
    /\ fs[0] = "dir" /\ fs[1] = "dir" /\ fs[2] = "file" /\ fs[1 + RootWidth] = "locked"
    /\ results.size = 0
    /\ pathlib_error = PATHLIB_OSERROR

\* C6 (as claimed): when the stat of an entry fails during the walk, the
\* walk returns an empty collection and signals PATHLIB_OSERROR.
C6_StatFailureSignalsOSError ==
    (pc = "done" /\ StatFails)
        => (results.size = 0 /\ pathlib_error = PATHLIB_OSERROR)

\* C7: on a root that does not exist or is not a directory, pathlib_glob
\* and pathlib_rglob return in one step with an empty Paths and
\* PATHLIB_NEXISTS, whatever pathlib_error was before, and open nothing.
C7_MissingRootGivesNEXISTS ==
    [][(pc = "call" /\ ~RootIsDir)
          => /\ pc' = "done"
             /\ results'.size = 0
             /\ pathlib_error' = PATHLIB_NEXISTS
             /\ open' = {}
             /\ stack' = <<>>]_vars

C7_Witness ==
    /\ pc = "done"
    /\ fs[0] = "file"
    /\ results.size = 0
    /\ pathlib_error = PATHLIB_NEXISTS

\* C8: every open directory handle belongs to a frame that is still
\* active, so a frame never returns with its handle open and no handle is
\* open once pathlib_glob / pathlib_rglob has returned.
C8_HandlesClosedByTheirFrame ==
    /\ \A h \in open :
          \E i \in 1..Len(stack) : stack[i].at = "readdir" /\ stack[i].dir = h
    /\ pc = "done" => open = {}

\* an rglob aborted by a directory two levels down that cannot be opened
C8_Witness ==
    /\ RglobDone
    /\ callRet = 0
    /\ fs[1] = "dir" /\ fs[1 + RootWidth] = "locked"
    /\ open = {}

(***************************************************************************)
(* The calls that change the file system: pathlib_unlink, pathlib_rmdir,   *)
(* pathlib_mkdir and pathlib_touch.  The system calls they make are        *)
(* modelled on the same tree of nodes; each gives [ok, fs].  unlink, rmdir *)
(* and mkdir do not follow a link in the last component; open does.        *)
(***************************************************************************)
Front(parts) == SubSeq(parts, 1, Len(parts) - 1)
Children(f, d) == { c \in Nodes \ {0} : Parent(c) = d /\ f[c] # "none" }

\* unlink(filename)
SysUnlink(f, s) ==
    LET n == Find(f, SplitSlash(s, <<>>), FALSE)
    IN  IF n # NoNode /\ f[n] \in {"file", "link", "dangling"}
        THEN [ok |-> TRUE, fs |-> [f EXCEPT ![n] = "none"]]
        ELSE [ok |-> FALSE, fs |-> f]

\* rmdir(filename): an empty directory only
SysRmdir(f, s) ==
    LET n == Find(f, SplitSlash(s, <<>>), FALSE)
    IN  IF n # NoNode /\ f[n] \in {"dir", "locked"} /\ Children(f, n) = {}
        THEN [ok |-> TRUE, fs |-> [f EXCEPT ![n] = "none"]]
        ELSE [ok |-> FALSE, fs |-> f]

\* remove(filename): unlink, or rmdir for a directory
SysRemove(f, s) ==
    IF SysUnlink(f, s).ok THEN SysUnlink(f, s) ELSE SysRmdir(f, s)

\* the entry named by the last component in directory node d, made of kind
\* k; a name that no node of the tree carries is made outside the tree
Create(f, d, name, k) ==
    LET slot == { c \in Nodes \ {0} : Parent(c) = d /\ Name(c) = name }
    IN  IF slot = {} THEN f ELSE [f EXCEPT ![CHOOSE c \in slot : TRUE] = k]

\* mkdir(filename, 0755): fails for the empty string, for a name that
\* exists and where the parent is not a directory
SysMkdir(f, s) ==
    LET parts == SplitSlash(s, <<>>)
        d     == Find(f, Front(parts), TRUE)
    IN  IF parts = <<>> \/ Find(f, parts, FALSE) # NoNode
        THEN [ok |-> FALSE, fs |-> f]
        ELSE IF d = NoNode \/ f[d] \notin {"dir", "locked"}
        THEN [ok |-> FALSE, fs |-> f]
        ELSE [ok |-> TRUE, fs |-> Create(f, d, parts[Len(parts)], "dir")]

\* open(filename, O_CREAT | O_WRONLY, ...) != -1
SysOpenCreat(f, s) ==
    LET parts == SplitSlash(s, <<>>)
        n     == Find(f, parts, TRUE)
        d     == Find(f, Front(parts), TRUE)
    IN  IF parts = <<>> THEN [ok |-> FALSE, fs |-> f]
        ELSE IF n # NoNode THEN [ok |-> f[n] = "file", fs |-> f]
        ELSE IF Find(f, parts, FALSE) # NoNode      \* a link to nothing
        THEN [ok |-> TRUE, fs |-> [f EXCEPT ![LinkTo] = "file"]]
        ELSE IF d = NoNode \/ f[d] \notin {"dir", "locked"}
        THEN [ok |-> FALSE, fs |-> f]
        ELSE [ok |-> TRUE, fs |-> Create(f, d, parts[Len(parts)], "file")]

\* pathlib_is_file: [ret, err]
pathlib_is_file(f, path) ==
    LET r == pathlib_render_str_to_buffer(path, PATHLIB_MAX_PATH)
    IN  IF ~pathlib_exists(f, path) THEN [ret |-> 0, err |-> PATHLIB_NONE]
        ELSE IF ~r.ok THEN [ret |-> 0, err |-> PATHLIB_NONE]
        ELSE IF ~Stat(f, r.str).ok THEN [ret |-> 0, err |-> PATHLIB_OSERROR]
        ELSE [ret |-> IF Stat(f, r.str).isreg THEN 1 ELSE 0, err |-> PATHLIB_NONE]

\* the loop of pathlib__render_n_parts_to_buffer, entered only for
\* n_parts = 0; it stops with 0 where it would read past the last segment
RECURSIVE RenderNLoop(_, _, _, _, _)
RenderNLoop(path, i, buffer_size, n_parts, out) ==
    IF ~(buffer_size > 0) \/ i >= Len(path.parts) THEN [ok |-> FALSE, str |-> out]
    ELSE LET part == path.parts[i + 1]
             left == buffer_size - Len(part)
         IN  IF Len(part) > buffer_size THEN [ok |-> FALSE, str |-> out]
             ELSE IF left < 1 THEN [ok |-> FALSE, str |-> out \o part]
             ELSE IF i + 1 # n_parts
             THEN RenderNLoop(path, i + 1, left - 1, n_parts, out \o part \o <<chSlash>>)
             ELSE [ok |-> TRUE, str |-> out \o part]

\* pathlib__render_n_parts_to_buffer: "if (n_parts)" writes the empty string
pathlib__render_n_parts_to_buffer(path, buffer_size, n_parts) ==
    IF n_parts # 0
    THEN [ok |-> ~(buffer_size < 1), str |-> <<>>]
    ELSE RenderNLoop(path, 0, buffer_size, n_parts, <<>>)

\* pathlib_unlink: [ret, err, fs]
pathlib_unlink(f, path) ==
    LET r == pathlib_render_str_to_buffer(path, PATHLIB_MAX_PATH)
    IN  IF ~pathlib_exists(f, path) THEN [ret |-> 0, err |-> PATHLIB_NEXISTS, fs |-> f]
        ELSE IF ~r.ok THEN [ret |-> 0, err |-> PATHLIB_NEXISTS, fs |-> f]
        ELSE IF ~SysRemove(f, r.str).ok THEN [ret |-> 0, err |-> PATHLIB_OSERROR, fs |-> f]
        ELSE [ret |-> 1, err |-> PATHLIB_NONE, fs |-> SysRemove(f, r.str).fs]

\* the "for (i = 1; i <= path->size; i++)" of pathlib_mkdir
RECURSIVE MkdirLoop(_, _, _, _)
MkdirLoop(f, path, i, err) ==
    IF ~(i <= path.size) THEN [ret |-> 1, err |-> err, fs |-> f]
    ELSE LET r == pathlib__render_n_parts_to_buffer(path, PATHLIB_MAX_PATH, i)
         IN  IF ~r.ok THEN [ret |-> 0, err |-> err, fs |-> f]
             ELSE IF ~SysMkdir(f, r.str).ok
             THEN [ret |-> 0, err |-> PATHLIB_OSERROR, fs |-> f]
             ELSE MkdirLoop(SysMkdir(f, r.str).fs, path, i + 1, err)

\* pathlib_mkdir: [ret, err, fs]
pathlib_mkdir(f, path) ==
    IF path.size = 0 THEN [ret |-> 1, err |-> PATHLIB_NONE, fs |-> f]
    ELSE IF pathlib_exists(f, path) /\ pathlib_is_dir(f, path).ret # 0
    THEN [ret |-> 1, err |-> PATHLIB_NONE, fs |-> f]
    ELSE MkdirLoop(f, path, 1,
                   IF pathlib_exists(f, path) THEN pathlib_is_dir(f, path).err
                   ELSE PATHLIB_NONE)

\* pathlib_touch from "if (!pathlib_mkdir(&subpath))" on, where the
\* pathlib_mkdir of the parent, if there is one, gave m
TouchFile(path, m) ==
    LET e1 == IF pathlib_exists(m.fs, path) THEN pathlib_is_file(m.fs, path).err
              ELSE m.err
        r  == pathlib_render_str_to_buffer(path, PATHLIB_MAX_PATH)
        o  == SysOpenCreat(m.fs, r.str)
    IN  IF m.ret = 0 THEN m
        ELSE IF pathlib_exists(m.fs, path) /\ pathlib_is_file(m.fs, path).ret # 0
        THEN [ret |-> 1, err |-> PATHLIB_EXISTS, fs |-> m.fs]
        ELSE IF ~r.ok THEN [ret |-> 0, err |-> e1, fs |-> m.fs]
        ELSE IF ~o.ok THEN [ret |-> 0, err |-> PATHLIB_OSERROR, fs |-> m.fs]
        ELSE [ret |-> 1, err |-> e1, fs |-> o.fs]

\* pathlib_touch: [ret, err, fs]
pathlib_touch(f, path) ==
    IF path.size = 0 THEN [ret |-> 1, err |-> PATHLIB_NONE, fs |-> f]
    ELSE TouchFile(path,
                   IF path.size > 1
                   THEN pathlib_mkdir(f, [path EXCEPT !.size = path.size - 1])
                   ELSE [ret |-> 1, err |-> PATHLIB_NONE, fs |-> f])

\* the entries of a directory in the order readdir delivers them: by node
\* number, upwards or downwards
RECURSIVE InOrder(_, _)
InOrder(S, up) ==
    IF S = {} THEN <<>>
    ELSE LET n == IF up THEN CHOOSE x \in S : \A y \in S : x <= y
                  ELSE CHOOSE x \in S : \A y \in S : x >= y
         IN  <<n>> \o InOrder(S \ {n}, up)

RECURSIVE pathlib_rmdir(_, _, _, _)
RECURSIVE RemoveLoop(_, _, _, _, _)

\* the loop after "pathlib_rmdir(&subpath, 1)" on a directory entry gave x
RemoveNext(path, todo, up, x) ==
    IF x.ret = 0 THEN x ELSE RemoveLoop(x.fs, path, Tail(todo), up, x.err)

\* the loop unlinking every entry, directories too
RECURSIVE RemoveLoop_FilesOnly(_, _, _, _, _)
RemoveLoop_FilesOnly(f, path, todo, up, err) ==
    IF todo = <<>> THEN [ret |-> 1, err |-> err, fs |-> f]
    ELSE LET subpath == pathlib_add_part(path, Name(Head(todo)))
             r       == pathlib_render_str_to_buffer(subpath, PATHLIB_MAX_PATH)
         IN  IF ~r.ok THEN [ret |-> 0, err |-> err, fs |-> f]
             ELSE IF ~Stat(f, r.str).ok
             THEN [ret |-> 0, err |-> PATHLIB_OSERROR, fs |-> f]
             ELSE LET u == SysUnlink(f, r.str)
                  IN  IF ~u.ok THEN [ret |-> 0, err |-> err, fs |-> f]
                      ELSE RemoveLoop_FilesOnly(u.fs, path, Tail(todo), up, err)

\* the "while ((entry = readdir(dir)) != NULL)" of
\* pathlib__remove_directory_contents over the entries still to come
RemoveLoop(f, path, todo, up, err) ==
    IF todo = <<>> THEN [ret |-> 1, err |-> err, fs |-> f]
    ELSE LET subpath == pathlib_add_part(path, Name(Head(todo)))
             r       == pathlib_render_str_to_buffer(subpath, PATHLIB_MAX_PATH)
         IN  IF ~r.ok THEN [ret |-> 0, err |-> err, fs |-> f]
             ELSE IF ~Stat(f, r.str).ok
             THEN [ret |-> 0, err |-> PATHLIB_OSERROR, fs |-> f]
             ELSE IF Stat(f, r.str).isdir
             THEN RemoveNext(path, todo, up, pathlib_rmdir(f, subpath, 1, up))
             ELSE LET u == SysUnlink(f, r.str)
                  IN  IF ~u.ok THEN [ret |-> 0, err |-> err, fs |-> f]
                      ELSE RemoveLoop(u.fs, path, Tail(todo), up, err)

\* pathlib__remove_directory_contents: [ret, err, fs]
pathlib__remove_directory_contents(f, path, up) ==
    LET r == pathlib_render_str_to_buffer(path, PATHLIB_MAX_PATH)
    IN  IF ~r.ok THEN [ret |-> 0, err |-> PATHLIB_NONE, fs |-> f]
        ELSE IF ~CanOpen(f, r.str) THEN [ret |-> 0, err |-> PATHLIB_OSERROR, fs |-> f]
        ELSE RemoveLoop(f, path, InOrder(Children(f, Resolve(f, r.str)), up), up,
                        PATHLIB_NONE)

\* pathlib_rmdir from "rmdir(filename)" on, where the removal of the
\* contents, if asked for, gave c
RmdirEmptied(filename, c) ==
    IF c.ret = 0 THEN [ret |-> 0, err |-> PATHLIB_OSERROR, fs |-> c.fs]
    ELSE IF ~SysRmdir(c.fs, filename).ok
    THEN [ret |-> 0, err |-> PATHLIB_OSERROR, fs |-> c.fs]
    ELSE [ret |-> 1, err |-> c.err, fs |-> SysRmdir(c.fs, filename).fs]

\* pathlib_rmdir: [ret, err, fs]
pathlib_rmdir(f, path, remove_contents, up) ==
    LET r == pathlib_render_str_to_buffer(path, PATHLIB_MAX_PATH)
    IN  IF ~pathlib_exists(f, path) THEN [ret |-> 0, err |-> PATHLIB_NEXISTS, fs |-> f]
        ELSE IF ~r.ok THEN [ret |-> 0, err |-> PATHLIB_NEXISTS, fs |-> f]
        ELSE IF remove_contents # 0
        THEN RmdirEmptied(r.str, pathlib__remove_directory_contents(f, path, up))
        ELSE RmdirEmptied(r.str, [ret |-> 1, err |-> PATHLIB_NONE, fs |-> f])

(***************************************************************************)
(* One call of pathlib_unlink, pathlib_rmdir, pathlib_mkdir or             *)
(* pathlib_touch on the Path of a node, from any file system of            *)
(* directories, files and links and any earlier value of pathlib_error.    *)
(* The root d/r is a directory.  callArg names the call made.              *)
(***************************************************************************)
OpKinds == {"dir", "file", "link", "none"}

RECURSIVE Below(_, _)
Below(n, a) == n # 0 /\ (Parent(n) = a \/ Below(Parent(n), a))

OpFileSystems ==
    { f \in [Nodes -> OpKinds] :
        /\ f[0] = "dir"
        /\ \A n \in Nodes \ {0} : f[Parent(n)] # "dir" => f[n] = "none"
        /\ \A n \in Nodes : f[n] = "link" => (n # LinkTo /\ ~Below(n, LinkTo)) }

NodePath(n) == [parts |-> NodeParts(n), size |-> Len(NodeParts(n)),
                capacity |-> Len(NodeParts(n))]

InitOps ==
    /\ charSigned = FALSE /\ libcWctype = "position"
    /\ pat = <<>> /\ str = <<>> /\ ret = -1
    /\ pc = "call"
    /\ fs \in OpFileSystems
    /\ pathlib_error \in Pathlib_Error
    /\ pattern = <<>> /\ recursive = 0 /\ stack = <<>> /\ callRet = -1
    /\ results = EmptyPaths /\ open = {} /\ opened = <<>>
    /\ argStr = <<>> /\ outStr = <<>>
    /\ \E n \in Nodes : thePath = NodePath(n)
    /\ callArg = <<>>

\* the call returns: its value, the indicator and the file system it leaves
Returns(x, name) ==
    /\ pc = "call"
    /\ ret' = x.ret
    /\ pathlib_error' = x.err
    /\ fs' = x.fs
    /\ callArg' = name
    /\ pc' = "done"
    /\ UNCHANGED <<charSigned, libcWctype, pat, str, pattern, recursive, stack,
                   callRet, results, open, opened, argStr, thePath, outStr>>

Unlink == Returns(pathlib_unlink(fs, thePath), <<"unlink">>)
Mkdir  == Returns(pathlib_mkdir(fs, thePath), <<"mkdir">>)
Touch  == Returns(pathlib_touch(fs, thePath), <<"touch">>)
Rmdir  ==
    \E remove_contents \in {0, 1}, up \in BOOLEAN :
        Returns(pathlib_rmdir(fs, thePath, remove_contents, up),
                <<"rmdir", remove_contents>>)

NextOps == Unlink \/ Mkdir \/ Touch \/ Rmdir

SpecOps == InitOps /\ [][NextOps]_vars


\* the nodes on the way from the root down to t, t included
Chain(t) == { a \in Nodes : a = t \/ Below(t, a) }

\* C21 (as claimed): where the path and some of its parents do not exist
\* yet and the first existing ancestor is a directory, pathlib_mkdir
\* returns 1 and afterwards every prefix of the path is a directory.
C21_MkdirCreatesMissingParents ==
    [][(/\ pc' = "done" /\ callArg' = <<"mkdir">>
        /\ \E t \in Nodes : /\ thePath = NodePath(t)
                            /\ fs[t] = "none"
                            /\ \A a \in Chain(t) : fs[a] \in {"dir", "none"})
        => /\ ret' = 1
           /\ \A t \in Nodes : thePath = NodePath(t)
                  => \A a \in Chain(t) : fs'[a] = "dir"]_vars

\* the error kinds each function documents
Documented(name) ==
    IF name[1] \in {"unlink", "rmdir"} THEN {PATHLIB_OSERROR, PATHLIB_NEXISTS}
    ELSE {PATHLIB_OSERROR, PATHLIB_EXISTS}

\* C22 (as claimed): after pathlib_unlink, pathlib_rmdir, pathlib_mkdir and
\* pathlib_touch the call returned 1 iff pathlib_error is PATHLIB_NONE, and
\* 0 iff pathlib_error is one of the kinds documented for the function.
C22_ReturnAgreesWithError ==
    pc = "done"
        => /\ (ret = 1) <=> (pathlib_error = PATHLIB_NONE)
           /\ (ret = 0) <=> (pathlib_error \in Documented(callArg))


\* t and everything below it
Subtree(t) == { n \in Nodes : n = t \/ Below(n, t) }

\* the call just made was pathlib_rmdir(path, remove_contents) on node t
RmdirOf(t, remove_contents) ==
    /\ pc' = "done" /\ callArg' = <<"rmdir", remove_contents>>
    /\ thePath = NodePath(t)

\* C26: pathlib_rmdir(path, 1) on a directory whose subtree holds only
\* regular files and directories returns 1 with PATHLIB_NONE, and
\* afterwards neither the directory nor anything below it exists;
\* pathlib_rmdir(path, 0) on a non-empty directory returns 0 with
\* PATHLIB_OSERROR and leaves the file system as it was.
C26_RmdirRemovesTree ==
    [][\A t \in Nodes :
        /\ (/\ RmdirOf(t, 1)
            /\ fs[t] = "dir"
            /\ \A n \in Subtree(t) : fs[n] \in {"dir", "file", "none"})
              => /\ ret' = 1 /\ pathlib_error' = PATHLIB_NONE
                 /\ \A n \in Subtree(t) : fs'[n] = "none"
        /\ (RmdirOf(t, 0) /\ fs[t] = "dir" /\ Children(fs, t) # {})
              => /\ ret' = 0 /\ pathlib_error' = PATHLIB_OSERROR
                 /\ fs' = fs]_vars

\* the root removed with its contents: nothing of the tree is left
C26_Witness ==
    /\ pc = "done" /\ callArg = <<"rmdir", 1>>
    /\ ret = 1 /\ pathlib_error = PATHLIB_NONE
    /\ thePath = NodePath(0)
    /\ \A n \in Nodes : fs[n] = "none"

\* C27 (as claimed): pathlib_rmdir(path, 1) removes nothing outside the
\* subtree of path, whether it succeeds or fails, also where an entry of
\* the subtree is a link to a directory elsewhere.
C27_RmdirStaysInsideSubtree ==
    [][\A t \in Nodes :
        RmdirOf(t, 1) => \A n \in Nodes \ Subtree(t) : fs'[n] = fs[n]]_vars

\* ---------------------------------------------------------------------
\* Suffix operations on the final segment
\* ---------------------------------------------------------------------

\* the scan pathlib_suffix, pathlib_stem and pathlib_with_suffix share:
\*   while (last_part_size > suffix_size) {
\*       if (last_part[last_part_size - suffix_size] == '.') break;
\*       suffix_size++; }
RECURSIVE SuffixScan(_, _)
SuffixScan(last_part, suffix_size) ==
    IF Len(last_part) > suffix_size
    THEN IF At(last_part, Len(last_part) - suffix_size + 1) = chDot
         THEN suffix_size
         ELSE SuffixScan(last_part, suffix_size + 1)
    ELSE suffix_size

\* const char* pathlib_name(const Path* path)
pathlib_name(path) ==
    IF path.size = 0 THEN <<>> ELSE path.parts[path.size]

\* char* pathlib_suffix(const Path* path)
pathlib_suffix(path) ==
    IF path.size = 0 THEN <<>>
    ELSE LET last_part == path.parts[path.size]
             last_part_size == Len(last_part)
             suffix_size == SuffixScan(last_part, 0)
         IN  IF At(last_part, last_part_size - suffix_size + 1) # chDot
             THEN <<>>
             ELSE SubSeq(last_part, last_part_size - suffix_size + 1,
                         last_part_size)

\* char* pathlib_stem(const Path* path)
pathlib_stem(path) ==
    IF path.size = 0 THEN <<>>
    ELSE LET last_part == path.parts[path.size]
             last_part_size == Len(last_part)
             suffix_size == SuffixScan(last_part, 0)
         IN  IF At(last_part, last_part_size - suffix_size + 1) # chDot
             THEN <<>>
             ELSE SubSeq(last_part, 1, last_part_size - suffix_size)

\* the first loop of pathlib_suffixes: the number of '.' in last_part
RECURSIVE CountDots(_)
CountDots(last_part) ==
    IF last_part = <<>> THEN 0
    ELSE (IF Head(last_part) = chDot THEN 1 ELSE 0) + CountDots(Tail(last_part))

\* the second loop of pathlib_suffixes: last_part points at the terminator
\* after the first loop and walks back (pos is its offset); each '.' closes
\* a suffix of suffix_size bytes starting at it
RECURSIVE SuffixesLoop(_, _, _, _, _)
SuffixesLoop(last_part, pos, count, suffix_size, suffixes) ==
    IF count = 0 THEN suffixes
    ELSE IF At(last_part, pos + 1) = chDot
         THEN SuffixesLoop(last_part, pos - 1, count - 1, 1,
                  Append(suffixes,
                         [null |-> FALSE,
                          str |-> SubSeq(last_part, pos + 1, pos + suffix_size)]))
         ELSE SuffixesLoop(last_part, pos - 1, count, suffix_size + 1, suffixes)

\* a NULL entry of a char* array
NullEntry == [null |-> TRUE, str |-> <<>>]

\* char** pathlib_suffixes(const Path* path, size_t* suffix_count)
\* suffix_count is the caller's cell: ptr says whether the pointer handed in
\* is non-NULL, val what the cell holds.  `suffix_count = 0` (lines 877 and
\* 899) assigns the parameter, not the cell.
pathlib_suffixes(path, suffix_count) ==
    IF path.size = 0
    THEN [suffixes |-> <<NullEntry>>, suffix_count |-> suffix_count]
    ELSE LET last_part == path.parts[path.size]
             count == CountDots(last_part)
         IN  IF count = 0
             THEN [suffixes |-> <<NullEntry>>, suffix_count |-> suffix_count]
             ELSE [suffixes |->
                       Append(SuffixesLoop(last_part, Len(last_part), count,
                                           0, <<>>), NullEntry),
                   suffix_count |->
                       IF suffix_count.ptr
                       THEN [suffix_count EXCEPT !.val = count]
                       ELSE suffix_count]

\* the C string a buffer holds: its bytes before the first 0
RECURSIVE CString(_, _)
CString(mem, k) ==
    IF mem[k] = 0 THEN <<>> ELSE <<mem[k]>> \o CString(mem, k + 1)

\* new_last_part after the two memcpy calls and the store of the terminator
\* at offset term: data is what the memcpy calls wrote from offset 0, g the
\* value of the bytes nothing wrote
Buffer(data, term, g) ==
    [k \in 0..term |-> IF k = term THEN 0
                       ELSE IF k < Len(data) THEN data[k + 1]
                       ELSE g]

\* void pathlib_with_suffix(Path* path, const char* new_suffix)
\* junk_len is what strlen(suffix) gives for the pointer `suffix` that is
\* never assigned (line 957), junk_byte the content of memory no one wrote.
\* The result carries the new path and, for the buffer: the bytes malloc
\* was asked for, the offsets written, the offset of the terminator and
\* whether that offset was computed from initialised values.
pathlib_with_suffix(path, new_suffix, junk_len, junk_byte) ==
    IF path.size = 0
    THEN [path |-> pathlib_add_part(path, new_suffix), allocated |-> 0,
          written |-> {}, term |-> 0, term_init |-> TRUE]
    ELSE LET last_part == path.parts[path.size]
             last_part_size == Len(last_part)
             suffix_size == SuffixScan(last_part, 0)
             nodot == At(last_part, last_part_size - suffix_size + 1) # chDot
             keep == IF nodot THEN last_part_size
                     ELSE last_part_size - suffix_size
             data == SubSeq(last_part, 1, keep) \o new_suffix
             term == IF nodot THEN last_part_size + junk_len
                     ELSE keep + Len(new_suffix)
             new_last_part == CString(Buffer(data, term, junk_byte), 0)
         IN  [path |-> [path EXCEPT !.parts[path.size] = new_last_part],
              allocated |-> IF nodot
                            THEN last_part_size + Len(new_suffix) + 1
                            ELSE keep + Len(new_suffix),
              written |-> (0..(Len(data) - 1)) \cup {term},
              term |-> term,
              term_init |-> ~nodot]

MaxSegLen == 3      \* longest final segment
MaxSufLen == 2      \* longest new suffix
MaxJunkLen == 3     \* longest string read through the unassigned pointer
MaxCount == 2       \* largest value the caller's counter holds before the call

\* final segments and new suffixes: a letter and '.'
SegStrings ==
    UNION { [1..n -> {97, chDot}] : n \in 1..MaxSegLen }
SufStrings ==
    UNION { [1..n -> {98, chDot}] : n \in 0..MaxSufLen }

\* the empty Path, and Paths of one and of two segments
SufPaths ==
    {EmptyPath}
    \cup { [parts |-> <<s>>, size |-> 1, capacity |-> 1] : s \in SegStrings }
    \cup { [parts |-> <<<<100>>, s>>, size |-> 2, capacity |-> 2] :
              s \in SegStrings }

\* the caller's counter: no counter (NULL), or one holding some value
Counters ==
    { [ptr |-> p, val |-> v] : p \in BOOLEAN, v \in 0..MaxCount }

\* content of memory that was never written
UninitBytes == {0, 85}

InitSuffix ==
    /\ charSigned = FALSE /\ libcWctype = "position"
    /\ pat = <<>> /\ str = <<>> /\ ret = -1
    /\ pc = "call"
    /\ WalkerIdle
    /\ thePath \in SufPaths
    /\ argStr \in SufStrings
    /\ callArg \in Counters
    /\ outStr = <<>>

\* one of the three read-only queries returns; outStr collects the results
Query(name, value) ==
    /\ pc \in {"call", "query"}
    /\ name \notin DOMAIN outStr
    /\ outStr' = (name :> value) @@ outStr
    /\ pc' = "query"
    /\ UNCHANGED <<charSigned, libcWctype, pat, str, ret, wvars, argStr,
                   thePath, callArg>>

GetName   == Query("name", pathlib_name(thePath))
GetStem   == Query("stem", pathlib_stem(thePath))
GetSuffix == Query("suffix", pathlib_suffix(thePath))

GetSuffixes ==
    /\ pc = "call"
    /\ LET r == pathlib_suffixes(thePath, callArg)
       IN  /\ outStr' = r.suffixes
           /\ callArg' = r.suffix_count
    /\ pc' = "suffixes"
    /\ UNCHANGED <<charSigned, libcWctype, pat, str, ret, wvars, argStr,
                   thePath>>

WithSuffix ==
    /\ pc = "call"
    /\ \E junk_len \in 0..MaxJunkLen, junk_byte \in UninitBytes :
          LET r == pathlib_with_suffix(thePath, argStr, junk_len, junk_byte)
          IN  /\ thePath' = r.path
              /\ outStr' = [allocated |-> r.allocated, written |-> r.written,
                            term |-> r.term, term_init |-> r.term_init]
    /\ pc' = "with_suffix"
    /\ UNCHANGED <<charSigned, libcWctype, pat, str, ret, wvars, argStr,
                   callArg>>

NextSuffix == GetName \/ GetStem \/ GetSuffix \/ GetSuffixes \/ WithSuffix

SpecSuffix == InitSuffix /\ [][NextSuffix]_vars


\* C23 (as claimed): for a Path with at least one segment, stem followed by
\* suffix is the final component pathlib_name gives (so a final component
\* without '.' has an empty suffix and is its own stem).
C23_StemSuffixIsName ==
    (/\ pc = "query" /\ thePath.size >= 1
     /\ DOMAIN outStr = {"name", "stem", "suffix"})
    => outStr["stem"] \o outStr["suffix"] = outStr["name"]

\* the entries of a char* array before its first NULL
RECURSIVE BeforeNull(_)
BeforeNull(array) ==
    IF array = <<>> \/ Head(array).null THEN <<>>
    ELSE <<Head(array).str>> \o BeforeNull(Tail(array))

\* C24 (as claimed): pathlib_suffixes returns a NULL-terminated array, and
\* a counter handed in holds on return the number of entries before the
\* NULL, which is 0 for the empty Path and for a final component without
\* '.', whatever the counter held before.
C24_SuffixCountIsEntryCount ==
    pc = "suffixes"
    => /\ Len(BeforeNull(outStr)) < Len(outStr)
       /\ callArg.ptr => callArg.val = Len(BeforeNull(outStr))

\* the segment without its last dot-suffix: what stands before the last '.'
\* (the whole segment where there is no '.')
WithoutLastSuffix(seg) ==
    LET dots == { k \in 1..Len(seg) : seg[k] = chDot }
    IN  IF dots = {} THEN seg
        ELSE SubSeq(seg, 1, (CHOOSE k \in dots : \A j \in dots : j <= k) - 1)

\* C25 (as claimed): pathlib_with_suffix on a Path with at least one
\* segment leaves the segment count and the segments before the last as
\* they were, and makes the last one the old one without its last
\* dot-suffix followed by the new suffix, terminated right after it.
C25_WithSuffixReplacesLastSuffix ==
    [][(pc' = "with_suffix" /\ thePath.size >= 1)
       => LET expected == WithoutLastSuffix(thePath.parts[thePath.size])
                          \o argStr
          IN  /\ thePath'.size = thePath.size
              /\ \A k \in 1..(thePath.size - 1) :
                    thePath'.parts[k] = thePath.parts[k]
              /\ thePath'.parts[thePath.size] = expected
              /\ outStr'.term = Len(expected)]_vars

\* C29 (as claimed): every byte pathlib_with_suffix writes, the terminator
\* included, lies inside the buffer it allocated, and the offset of the
\* terminator is computed from initialised values only.
C29_WithSuffixWritesInsideBuffer ==
    pc = "with_suffix"
    => /\ \A k \in outStr.written : k < outStr.allocated
       /\ outStr.term_init

\* ---------------------------------------------------------------------
\* Collections as pathlib_listdir returns them, then added to and popped
\* ---------------------------------------------------------------------

\* what follows an entry's name in the copy made of it: the copy takes
\* strlen(name) bytes into a buffer of one more and stores no terminator, so
\* the string ends at once or after bytes nothing wrote
JunkTails == { <<>> } \cup { <<b>> : b \in UninitBytes \ {0} }

\* the second readdir loop of pathlib_listdir: one pathlib_paths_add per
\* entry, of a copy of path with the copy of the entry's name added
RECURSIVE ListLoop(_, _, _, _)
ListLoop(paths, path, todo, junk) ==
    IF todo = <<>> THEN paths
    ELSE ListLoop(pathlib_paths_add(paths,
                      pathlib_add_part(path, Name(Head(todo)) \o junk)),
                  path, Tail(todo), junk)

\* Paths pathlib_listdir(const Path* inpath), the readdir branch: the first
\* loop counts the entries other than "." and "..", the array gets exactly
\* count slots, the second loop fills them
pathlib_listdir(f, inpath, up, junk) ==
    LET r == pathlib_render_str_to_buffer(inpath, PATHLIB_MAX_PATH)
    IN  IF ~pathlib_exists(f, inpath) \/ ~r.ok
        THEN [paths |-> EmptyPaths, err |-> PATHLIB_NONE]
        ELSE IF ~CanOpen(f, r.str)
        THEN [paths |-> EmptyPaths, err |-> PATHLIB_OSERROR]
        ELSE LET path  == [inpath EXCEPT !.capacity = inpath.capacity + 1]
                 todo  == InOrder(Children(f, Resolve(f, r.str)), up)
                 count == Len(todo)
             IN  [paths |-> ListLoop([paths |-> <<>>, size |-> 0,
                                      capacity |-> count, alloc |-> TRUE],
                                     path, todo, junk),
                  err |-> PATHLIB_NONE]

\* the slots (from 0) the memmove of pathlib_paths_pop reads and writes:
\* size - i slots from i + 1 on are copied to i on; none where the call
\* returns before the memmove
MemmoveReads(paths, i) ==
    IF paths.size = 0 \/ paths.size - 1 = i THEN {}
    ELSE { i + 1 + k : k \in 0..(paths.size - i - 1) }
MemmoveWrites(paths, i) ==
    IF paths.size = 0 \/ paths.size - 1 = i THEN {}
    ELSE { i + k : k \in 0..(paths.size - i - 1) }

\* pathlib_listdir of some path in some file system starts the collection
Listdir ==
    /\ pc = "new"
    /\ \E f \in OpFileSystems, n \in Nodes, up \in BOOLEAN, junk \in JunkTails :
          LET r == pathlib_listdir(f, NodePath(n), up, junk)
          IN  /\ results' = r.paths
              /\ pathlib_error' = r.err
    /\ pc' = "listed"
    /\ UNCHANGED <<charSigned, libcWctype, pvars, pat, str, ret, fs,
                   pattern, recursive, stack, callRet, open, opened>>

NextListed == Listdir \/ PathsAdd \/ PathsPop

SpecListed == InitPaths /\ [][NextListed]_vars

\* C28 (as claimed): pathlib_paths_pop(paths, i) with i < size reads and
\* writes only slots below capacity, also where size = capacity as
\* pathlib_listdir leaves it: the block moved never reaches past the last
\* allocated slot.
C28_PopStaysInsideAllocation ==
    [][pc' = "popped"
        => \A k \in MemmoveReads(results, callArg')
                    \cup MemmoveWrites(results, callArg') :
              k < results.capacity]_vars

\* ---------------------------------------------------------------------
\* The walk as a process that runs to its return, over trees that may
\* hold symbolic links to a directory
\* ---------------------------------------------------------------------

\* file systems of FileSystems' shape where an entry may also be a link to
\* the entry LinkTo; no link lies at, below or above LinkTo, so no link
\* closes a cycle
WalkFileSystems ==
    { f \in [Nodes -> Kinds \cup {"link"}] :
        /\ \A n \in Nodes \ {0} :
              IF f[Parent(n)] = "dir" THEN f[n] # "none" ELSE f[n] = "none"
        /\ \A n \in Nodes :
              f[n] = "link" => /\ n # LinkTo
                               /\ ~Below(n, LinkTo)
                               /\ ~Below(LinkTo, n) }

InitWalk ==
    /\ charSigned = FALSE
    /\ libcWctype = "position"
    /\ PathIdle
    /\ pc = "call"
    /\ pat = <<>> /\ str = <<>> /\ ret = -1
    /\ fs \in WalkFileSystems
    /\ pathlib_error = PATHLIB_NONE
    /\ pattern = <<>>
    /\ recursive = 0
    /\ stack = <<>>
    /\ callRet = -1
    /\ results = EmptyPaths
    /\ open = {}
    /\ opened = [n \in Nodes |-> 0]

NextWalk ==
    \/ pathlib_rglob
    \/ Opendir
    \/ Readdir
    \/ FrameReturn
    \/ FrameAbort
    \/ GlobReturn

\* The call has not returned.  No step of NextWalk is needed to see that
\* this is enabled exactly where pc # "done", and NextWalk has a step in
\* every such state (the walk never blocks), so with it as first disjunct
\* ENABLED <<Unreturned \/ NextWalk>>_vars is ENABLED <<NextWalk>>_vars and
\* is evaluated without stepping through opendir, stat and the matcher.
\* Every step of SpecWalk is a NextWalk step, so the fairness condition
\* below is WF_vars(NextWalk).
Unreturned ==
    /\ pc # "done"
    /\ pc' = "done"
    /\ UNCHANGED <<charSigned, libcWctype, pat, str, ret, wvars, pvars>>

\* the calling thread runs on until pathlib_rglob returns
SpecWalk == InitWalk /\ [][NextWalk]_vars /\ WF_vars(Unreturned \/ NextWalk)

\* how far below the root node n lies
RECURSIVE Level(_)
Level(n) == IF n = 0 THEN 0 ELSE 1 + Level(Parent(n))

\* the directories of the tree and the depth of the deepest of them
Directories == { n \in Nodes : fs[n] \in {"dir", "locked"} }
TreeDepth ==
    IF Directories = {} THEN 0
    ELSE CHOOSE k \in 0..NodeCount :
            /\ \E n \in Directories : Level(n) = k
            /\ \A n \in Directories : Level(n) <= k

\* no entry is a link to a directory, and opendir succeeds on every
\* directory
NoDirLinks  == \A n \in Nodes : fs[n] = "link" => fs[LinkTo] \notin {"dir", "locked"}
AllOpenable == \A n \in Nodes : fs[n] # "locked"

\* once pathlib_rglob has returned, opendir has succeeded exactly once on
\* every directory of the tree and never on anything else
EachOpenedOnce ==
    /\ \A n \in Nodes : opened[n] <= 1
    /\ RglobDone => \A n \in Nodes :
                       opened[n] = (IF n \in Directories THEN 1 ELSE 0)

\* handles and frames of an rglob walk stay within the depth plus one
WithinDepth ==
    recursive = 1 => /\ Cardinality(open) <= TreeDepth + 1
                     /\ Len(stack) <= TreeDepth + 1

====
